---- MODULE Spec2Model ----
(***************************************************************************)
(* Long-term memory engine of AstrBot: the store (events, items, evidence, *)
(* relations), the writer's extraction cycle and candidate pipeline, the   *)
(* consolidator and the manager's single-flight background extraction.     *)
(*                                                                         *)
(* Every database call of the code is an await, i.e. a point where another *)
(* asyncio task may run; the model has one step per database call (calls   *)
(* that touch nothing the others read or write are folded into the next    *)
(* step).  Confidence and importance are fixed-point numbers, 1000 = 1.0.  *)
(* Time is in seconds; NoTime stands for a NULL timestamp.                 *)
(***************************************************************************)
EXTENDS Integers, Sequences, FiniteSets, TLC

\* ------------------------------------------------------------------ bounds
MaxEvents == 2
MaxRetryEvents == 1
MaxRaceEvents == 2
MaxRaceCands == 1
MaxCallers == 2
MaxTasks == 2
MaxCands == 2
MaxFaults == 1
MaxIds == 2
MaxConsolidations == 1
MaxEvictEvents == 3
MaxReadEvents == 2
MaxGateEvents == 3
MaxHistoryEvents == 2
MaxHistoryDays == 2
MaxCancelEvents == 2
MaxCancels == 2
MaxBackoffAttempts == 10
MaxFetchEvents == 2
MaxFetchSeconds == 120
MaxLimitEvents == 3
MaxConsolidateEvents == 3
MaxSweeps == 2
MaxSweepEvents == 2
SweepDay == 400
MaxSweepDay == 402

\* ------------------------------------------------------- program constants
RETRY_MAX_ATTEMPTS == 5
RETRY_BASE_DELAY_SECONDS == 30
RETRY_MAX_DELAY_SECONDS == 1800
BatchSize == 20
EvidenceLimit == 3
SourceWeightLlmExtract == 800
MIN_KEY_SIMILARITY == 550
ConsolidationLimit == 100

NoTime == -1
NoTask == 0
NoTtl == 0
One == 1000

Scopes == {"u1", "u2"}

VALID_MEMORY_TYPES == {"profile", "preference", "task_state", "constraint", "episode"}

RelationTypes == {"profile", "preference", "task_state", "constraint"}

\* DEFAULT_RETENTION_DAYS, a negative value meaning permanent.
DEFAULT_RETENTION_DAYS ==
  [t \in VALID_MEMORY_TYPES |->
     CASE t = "profile" -> -1
       [] t = "preference" -> 90
       [] t = "task_state" -> 7
       [] t = "constraint" -> -1
       [] OTHER -> 30]

\* ---------------------------------------------------------------- inputs
\* The candidates the extraction collaborator may return (after the
\* validation and normalisation of extract_candidates).
CandBeijing ==
  [type |-> "profile", fact |-> "lives in Beijing",
   fact_key |-> "current_city_beijing", subject_key |-> "current_city",
   confidence |-> 900, importance |-> 800]

CandShanghai ==
  [type |-> "profile", fact |-> "lives in Shanghai",
   fact_key |-> "current_city_shanghai", subject_key |-> "current_city",
   confidence |-> 920, importance |-> 820]

CandTea ==
  [type |-> "preference", fact |-> "likes tea", fact_key |-> "likes_tea",
   subject_key |-> "", confidence |-> 700, importance |-> 500]

\* Two facts the reader's budget is tried on: a long line of high rank and
\* an episode.
CandJob ==
  [type |-> "profile", fact |-> "works as a software engineer in Hangzhou",
   fact_key |-> "occupation", subject_key |-> "occupation",
   confidence |-> 950, importance |-> 900]

CandTrip ==
  [type |-> "episode", fact |-> "visited Kyoto last spring",
   fact_key |-> "trip_kyoto", subject_key |-> "trip",
   confidence |-> 800, importance |-> 300]

Cities == {CandBeijing, CandShanghai}
Candidates == {CandBeijing, CandShanghai, CandTea}

\* The tea preference extracted with other scores: its priority as a
\* candidate equals the priority of the stored Beijing item.
CandTie == [CandTea EXCEPT !.confidence = 720, !.importance = 800]

EvictPool == {CandBeijing, CandShanghai, CandTie}

\* The fact_key a consolidation reply may name.
MergedKeys == {"current_city_beijing", "likes_tea"}

FactKeys == {c.fact_key : c \in Candidates} \cup MergedKeys

\* Sequences of at most n candidates of pool.
RECURSIVE CandSeqs(_, _)
CandSeqs(pool, n) ==
  IF n = 0 THEN {<< >>}
  ELSE LET shorter == CandSeqs(pool, n - 1)
       IN  shorter \cup {Append(s, c) : s \in {t \in shorter : Len(t) = n - 1}, c \in pool}

\* MemoryWritePolicy; the values the runs are made under.
PolicyAuto ==
  [enable |-> TRUE, mode |-> "auto", min_confidence |-> 300,
   min_evidence_count |-> 1, allowed_types |-> VALID_MEMORY_TYPES,
   max_writes_per_session |-> 10, max_writes_per_hour |-> 50,
   max_items_per_scope |-> 200, require_approval_types |-> {},
   eviction_enabled |-> TRUE, enable_temporal_supersede |-> TRUE,
   temporal_conflict_types |-> {"profile", "preference", "task_state", "constraint"}]

PolicyGate == [PolicyAuto EXCEPT !.min_evidence_count = 2]

PolicySmall == [PolicyAuto EXCEPT !.max_items_per_scope = 1]

PolicyTwo == [PolicyAuto EXCEPT !.max_items_per_scope = 2]

PolicyStrict == [PolicySmall EXCEPT !.min_confidence = 730]

PolicyNoEvict == [PolicySmall EXCEPT !.eviction_enabled = FALSE]

PolicyShadow == [PolicyAuto EXCEPT !.mode = "shadow"]

\* Evidence gates: of 2 under the other modes, under approval of profiles
\* and on a scope of one item, and of 3.
GatePolicies ==
  {PolicyGate,
   [PolicyGate EXCEPT !.mode = "shadow"],
   [PolicyGate EXCEPT !.mode = "manual"],
   [PolicyGate EXCEPT !.require_approval_types = {"profile"}],
   [PolicyGate EXCEPT !.max_items_per_scope = 1],
   [PolicyGate EXCEPT !.min_evidence_count = 3]}

\* ------------------------------------------------------------------ state
VARIABLES
  now,            \* the clock, datetime.now(timezone.utc)
  policy,         \* the write policy every cycle is called with
  events,         \* memory_events: the rows in insertion order, event_id = index
  items,          \* memory_items: a set of rows
  evidence,       \* memory_evidence: a set of <<memory_id, event_id>>
  relations,      \* memory_relations: a set of rows
  next_id,        \* per (scope, fact_key): the number of the key's next row
  session_writes, \* MemoryWriter._session_write_counts
  hourly_writes,  \* MemoryWriter._hourly_writes
  wk,             \* per cycle: the position and the locals of process_pending_events
  extraction_task,    \* LTMManager._extraction_task: the task slot, or NoTask
  extraction_pending, \* LTMManager._extraction_pending
  cons,           \* the consolidator's position and locals
  faults,         \* database faults injected so far
  hist,           \* per (scope, fact_key): the submissions seen (observation only)
  rd,             \* the last call of MemoryReader.retrieve_memory_context
  mt              \* the last run_maintenance_sweep: what failed, what it returned

vars == <<now, policy, events, items, evidence, relations, next_id,
          session_writes, hourly_writes, wk, extraction_task,
          extraction_pending, cons, faults, hist, rd, mt>>

\* The cycles: those of the direct callers of run_extraction_cycle and those
\* of the tasks schedule_extraction creates.
Callers == 1..MaxCallers
Tasks == (MaxCallers + 1)..(MaxCallers + MaxTasks)
Workers == Callers \cup Tasks

\* memory_id and relation_id are uuid4 values: fresh and nothing else.  An
\* item's is <<scope, fact_key, n>> for the n-th row of the key, a relation's
\* <<scope, subject_key, predicate, object_text, n>>.
NoId == << >>

NoItem == [memory_id |-> NoId]

IdleWorker ==
  [pc |-> "idle", groups |-> << >>, cands |-> << >>, had_errors |-> FALSE,
   cand |-> NoItem, existing |-> NoItem, eids |-> << >>, new_ids |-> << >>,
   upd |-> NoItem, victim |-> NoId, item_id |-> NoId, item_status |-> "",
   ret |-> "none"]

\* ---------------------------------------------------------------- helpers
Min(a, b) == IF a <= b THEN a ELSE b
Max(a, b) == IF a >= b THEN a ELSE b

RECURSIVE Pow2(_)
Pow2(n) == IF n <= 0 THEN 1 ELSE 2 * Pow2(n - 1)

Range(s) == {s[i] : i \in DOMAIN s}

\* list(dict.fromkeys(s)): the first occurrences, in order.
RECURSIVE Dedup(_)
Dedup(s) ==
  IF s = << >> THEN << >>
  ELSE LET front == Dedup(SubSeq(s, 1, Len(s) - 1))
           last == s[Len(s)]
       IN  IF last \in Range(front) THEN front ELSE Append(front, last)

Take(s, n) == SubSeq(s, 1, Min(n, Len(s)))

SelectSeqIn(s, S) == SelectSeq(s, LAMBDA x : x \in S)

\* ------------------------------------------------------------ MemoryDB: events
NewEvent(scope, has_text) ==
  [scope |-> scope, has_text |-> has_text, processed |-> FALSE,
   attempt_count |-> 0, next_retry_at |-> NoTime, last_error |-> "",
   dead_letter |-> FALSE, created_at |-> now, deleted |-> FALSE]

\* func.coalesce(next_retry_at, created_at)
RetryOrCreated(e) == IF e.next_retry_at # NoTime THEN e.next_retry_at ELSE e.created_at

\* Variant: the WHERE clause takes only the events never retried.
EligibleNeverRetried(e, retry_now) ==
  /\ ~e.processed
  /\ ~e.dead_letter
  /\ e.next_retry_at = NoTime

\* Variant: the WHERE clause without the test of next_retry_at.
EligibleIgnoringRetry(e, retry_now) ==
  /\ ~e.processed
  /\ ~e.dead_letter

\* The WHERE clause of get_unprocessed_events.
Eligible(e, retry_now) ==
  /\ ~e.processed
  /\ ~e.dead_letter
  /\ (e.next_retry_at = NoTime \/ e.next_retry_at <= retry_now)

\* ORDER BY coalesce(next_retry_at, created_at), created_at; rows that tie
\* come in insertion order.
EventBefore(evs, a, b) ==
  \/ RetryOrCreated(evs[a]) < RetryOrCreated(evs[b])
  \/ /\ RetryOrCreated(evs[a]) = RetryOrCreated(evs[b])
     /\ \/ evs[a].created_at < evs[b].created_at
        \/ evs[a].created_at = evs[b].created_at /\ a < b

RECURSIVE SortEvents(_, _)
SortEvents(evs, ids) ==
  IF ids = {} THEN << >>
  ELSE LET first == CHOOSE a \in ids : \A b \in ids \ {a} : EventBefore(evs, a, b)
       IN  <<first>> \o SortEvents(evs, ids \ {first})

get_unprocessed_events(evs, limit, retry_now) ==
  Take(SortEvents(evs, {i \in DOMAIN evs : Eligible(evs[i], retry_now)}), limit)

\* Variant: marks the events processed and leaves their retry state.
mark_events_processed_only(evs, event_ids) ==
  [i \in DOMAIN evs |->
     IF i \in Range(event_ids)
     THEN [evs[i] EXCEPT !.processed = TRUE]
     ELSE evs[i]]

mark_events_processed(evs, event_ids) ==
  [i \in DOMAIN evs |->
     IF i \in Range(event_ids)
     THEN [evs[i] EXCEPT !.processed = TRUE, !.next_retry_at = NoTime,
                         !.last_error = ""]
     ELSE evs[i]]

\* Variant: a delay that grows linearly with the attempt.
RetryDelayLinear(next_attempt, base_delay_seconds, max_delay_seconds) ==
  Min(max_delay_seconds, base_delay_seconds * next_attempt)

\* The backoff of mark_events_retry for the attempt number next_attempt.
RetryDelay(next_attempt, base_delay_seconds, max_delay_seconds) ==
  Min(max_delay_seconds, base_delay_seconds * Pow2(Max(0, next_attempt - 1)))

\* Variant: the dead letter comes one attempt late.
RetryRowLate(e, error, max_attempts, base_delay_seconds, max_delay_seconds) ==
  LET next_attempt == e.attempt_count + 1
  IN  IF next_attempt > max_attempts
      THEN [e EXCEPT !.attempt_count = next_attempt, !.last_error = error,
                     !.dead_letter = TRUE, !.next_retry_at = NoTime]
      ELSE [e EXCEPT !.attempt_count = next_attempt, !.last_error = error,
                     !.next_retry_at =
                        now + RetryDelay(next_attempt, base_delay_seconds,
                                         max_delay_seconds)]

RetryRow(e, error, max_attempts, base_delay_seconds, max_delay_seconds) ==
  LET next_attempt == e.attempt_count + 1
  IN  IF next_attempt >= max_attempts
      THEN [e EXCEPT !.attempt_count = next_attempt, !.last_error = error,
                     !.dead_letter = TRUE, !.next_retry_at = NoTime]
      ELSE [e EXCEPT !.attempt_count = next_attempt, !.last_error = error,
                     !.next_retry_at =
                        now + RetryDelay(next_attempt, base_delay_seconds,
                                         max_delay_seconds)]

mark_events_retry(evs, event_ids, error, max_attempts, base_delay_seconds, max_delay_seconds) ==
  [i \in DOMAIN evs |->
     IF i \in Range(event_ids) /\ ~evs[i].processed /\ ~evs[i].dead_letter
     THEN RetryRow(evs[i], error, max_attempts, base_delay_seconds,
                   max_delay_seconds)
     ELSE evs[i]]

\* Variant: the retry is scheduled for the first event of the group only.
schedule_retry_first(evs, event_ids, error) ==
  mark_events_retry(evs, Take(event_ids, 1), error, RETRY_MAX_ATTEMPTS,
                    RETRY_BASE_DELAY_SECONDS, RETRY_MAX_DELAY_SECONDS)

\* MemoryWriter._schedule_retry
schedule_retry(evs, event_ids, error) ==
  mark_events_retry(evs, event_ids, error, RETRY_MAX_ATTEMPTS,
                    RETRY_BASE_DELAY_SECONDS, RETRY_MAX_DELAY_SECONDS)

\* grouped[(event.scope, event.scope_id)].append(event): the groups in the
\* order their first event comes in the batch.
RECURSIVE GroupScopes(_, _)
GroupScopes(evs, batch) ==
  IF batch = << >> THEN << >>
  ELSE LET front == GroupScopes(evs, SubSeq(batch, 1, Len(batch) - 1))
           sc == evs[batch[Len(batch)]].scope
       IN  IF sc \in Range(front) THEN front ELSE Append(front, sc)

GroupEvents(evs, batch) ==
  LET scs == GroupScopes(evs, batch)
  IN  [g \in DOMAIN scs |-> SelectSeq(batch, LAMBDA i : evs[i].scope = scs[g])]

\* ------------------------------------------------------------- MemoryDB: items
get_item_by_fact_key(its, scope, fact_key) ==
  IF \E i \in its : i.scope = scope /\ i.fact_key = fact_key
  THEN CHOOSE i \in its : i.scope = scope /\ i.fact_key = fact_key
  ELSE NoItem

\* Variant: a store without the unique constraint on the key.
ItemKeyUnchecked(its, scope, fact_key) == FALSE

\* UniqueConstraint("scope", "scope_id", "fact_key"): the insert raises.
ItemKeyTaken(its, scope, fact_key) ==
  \E i \in its : i.scope = scope /\ i.fact_key = fact_key

NewItem(id, scope, type, fact, fact_key, subject_key, confidence, importance, evidence_count, ttl_days, status, valid_at) ==
  [memory_id |-> id, scope |-> scope, type |-> type, fact |-> fact,
   fact_key |-> fact_key, subject_key |-> subject_key,
   confidence |-> confidence, importance |-> importance,
   evidence_count |-> evidence_count, ttl_days |-> ttl_days,
   status |-> status, valid_at |-> valid_at, invalid_at |-> NoTime,
   superseded_by |-> NoId, created_at |-> now, updated_at |-> now]

insert_item(its, row) == its \cup {row}

\* update_item(memory_id, fact=, subject_key=, confidence=, importance=,
\* evidence_count=, status=); a memory_id that is gone updates nothing.
update_item_merge(its, memory_id, u) ==
  {IF i.memory_id = memory_id
   THEN [i EXCEPT !.fact = u.fact, !.subject_key = u.subject_key,
                  !.confidence = u.confidence, !.importance = u.importance,
                  !.evidence_count = u.evidence_count, !.status = u.status,
                  !.updated_at = now]
   ELSE i : i \in its}

\* update_item(memory_id, status=)
update_item_status(its, memory_id, status) ==
  {IF i.memory_id = memory_id
   THEN [i EXCEPT !.status = status, !.updated_at = now]
   ELSE i : i \in its}

\* Variant: a count of the shadow items alone.
count_shadow_items(its, scope) ==
  Cardinality({i \in its : i.scope = scope /\ i.status = "shadow"})

count_items_for_scope(its, scope) ==
  Cardinality({i \in its : i.scope = scope /\ i.status \in {"active", "shadow"}})

get_conflicting_items_by_subject(its, scope, type, subject_key, exclude_fact_key) ==
  IF subject_key = "" THEN {}
  ELSE {i \in its :
          /\ i.scope = scope
          /\ i.type = type
          /\ i.subject_key = subject_key
          /\ i.status = "active"
          /\ (i.invalid_at = NoTime \/ i.invalid_at > now)
          /\ (exclude_fact_key = "" \/ i.fact_key # exclude_fact_key)}

\* Variant: a supersession that does not name the superseding item.
supersede_items_unlinked(its, memory_ids, superseded_by, invalid_at) ==
  {IF i.memory_id \in memory_ids /\ i.status = "active"
   THEN [i EXCEPT !.status = "superseded", !.invalid_at = invalid_at,
                  !.updated_at = invalid_at]
   ELSE i : i \in its}

supersede_items(its, memory_ids, superseded_by, invalid_at) ==
  {IF i.memory_id \in memory_ids /\ i.status = "active"
   THEN [i EXCEPT !.status = "superseded", !.invalid_at = invalid_at,
                  !.superseded_by = superseded_by, !.updated_at = invalid_at]
   ELSE i : i \in its}

\* The eviction order: importance * 0.4 + confidence * 0.3, then updated_at.
EvictionKey(i) == i.importance * 4 + i.confidence * 3

get_eviction_candidates(its, scope) ==
  LET pool == {i \in its : i.scope = scope /\ i.status \in {"active", "shadow"}}
  IN  {v \in pool :
         \A o \in pool :
            \/ EvictionKey(v) < EvictionKey(o)
            \/ EvictionKey(v) = EvictionKey(o) /\ v.updated_at <= o.updated_at}

\* ---------------------------------------------------------- MemoryDB: evidence
\* Variant: a lookup that finds no evidence linked.
NoneLinked(evd, memory_id, event_ids) == {}

get_existing_evidence_event_ids(evd, memory_id, event_ids) ==
  {e \in Range(event_ids) : <<memory_id, e>> \in evd}

\* insert_evidence for each id in turn; UniqueConstraint("memory_id",
\* "event_id") makes the first duplicate raise, the earlier rows stay.
RECURSIVE InsertEvidenceAll(_, _, _)
InsertEvidenceAll(evd, memory_id, event_ids) ==
  IF event_ids = << >> THEN [evidence |-> evd, raised |-> FALSE]
  ELSE IF <<memory_id, Head(event_ids)>> \in evd
       THEN [evidence |-> evd, raised |-> TRUE]
       ELSE InsertEvidenceAll(evd \cup {<<memory_id, Head(event_ids)>>},
                              memory_id, Tail(event_ids))

\* The new-item path swallows the error of each insert_evidence.
InsertEvidenceQuiet(evd, memory_id, event_ids) ==
  evd \cup {<<memory_id, e>> : e \in Range(event_ids)}

\* --------------------------------------------------------- MemoryDB: relations
\* Variant: the lookup by signature finds nothing.
no_relation_by_signature(rels, scope, subject_key, predicate, object_text, ts) == {}

get_active_relation_by_signature(rels, scope, subject_key, predicate, object_text, ts) ==
  {r \in rels :
     /\ r.scope = scope
     /\ r.subject_key = subject_key
     /\ r.predicate = predicate
     /\ r.object_text = object_text
     /\ r.status = "active"
     /\ (r.valid_at = NoTime \/ r.valid_at <= ts)
     /\ (r.invalid_at = NoTime \/ r.invalid_at > ts)}

\* Variant: the conflicting relations are left as they are.
supersede_none(rels, scope, subject_key, predicate, keep_relation_id, object_text, ts) == rels

supersede_conflicting_relations(rels, scope, subject_key, predicate, keep_relation_id, object_text, ts) ==
  {IF /\ r.scope = scope
      /\ r.subject_key = subject_key
      /\ r.predicate = predicate
      /\ r.status = "active"
      /\ r.relation_id # keep_relation_id
      /\ r.object_text # object_text
   THEN [r EXCEPT !.status = "superseded", !.invalid_at = ts,
                  !.superseded_by = keep_relation_id, !.updated_at = ts]
   ELSE r : r \in rels}

\* upsert_relation: refresh the active relation with this triple (ORDER BY
\* updated_at DESC LIMIT 1 of one row) or insert one, then supersede the
\* active relations with another object.
upsert_relation(rels, scope, subject_key, predicate, object_text, confidence, evidence_count, memory_id, memory_type, ts) ==
  LET found == get_active_relation_by_signature(rels, scope, subject_key,
                                                predicate, object_text, ts)
      same == {r \in rels : /\ r.scope = scope
                            /\ r.subject_key = subject_key
                            /\ r.predicate = predicate
                            /\ r.object_text = object_text}
      id == <<scope, subject_key, predicate, object_text, Cardinality(same) + 1>>
      old == CHOOSE r \in found : TRUE
      kept == IF found # {} THEN old.relation_id ELSE id
      written ==
        IF found # {}
        THEN (rels \ {old}) \cup
             {[old EXCEPT !.confidence = Max(old.confidence, confidence),
                          !.evidence_count = Max(old.evidence_count, evidence_count),
                          !.memory_id = memory_id, !.memory_type = memory_type,
                          !.updated_at = now]}
        ELSE rels \cup
             {[relation_id |-> id, scope |-> scope, subject_key |-> subject_key,
               predicate |-> predicate, object_text |-> object_text,
               confidence |-> confidence, evidence_count |-> evidence_count,
               status |-> "active", valid_at |-> ts, invalid_at |-> NoTime,
               superseded_by |-> NoId, memory_id |-> memory_id,
               memory_type |-> memory_type, updated_at |-> now]}
  IN  supersede_conflicting_relations(written, scope, subject_key, predicate,
                                      kept, object_text, ts)

\* ------------------------------------------------------------- MemoryWriter
\* _compute_priority_score with the default recency of 1.0, times 10000.
compute_priority_score(importance, confidence) ==
  importance * 4 + One * 3 + confidence * 3

resolve_status_for_policy(mem_type, write_policy) ==
  IF write_policy.mode = "shadow" THEN "shadow"
  ELSE IF write_policy.mode = "auto"
       THEN IF mem_type \in write_policy.require_approval_types
            THEN "shadow" ELSE "active"
       ELSE "shadow"

\* _prune_hourly_writes
\* Variant: the prune drops every recorded write.
prune_all_writes(writes) == << >>

prune_hourly_writes(writes) == SelectSeq(writes, LAMBDA t : t > now - 3600)

\* _apply_temporal_supersede
apply_temporal_supersede(its, scope, mem_type, subject_key, fact_key, new_memory_id, write_policy, supersede_at) ==
  IF ~write_policy.enable_temporal_supersede THEN its
  ELSE IF mem_type \notin write_policy.temporal_conflict_types THEN its
  ELSE IF subject_key = "" THEN its
  ELSE LET conflicts == get_conflicting_items_by_subject(its, scope, mem_type,
                                                         subject_key, fact_key)
           conflict_ids == {i.memory_id : i \in conflicts} \ {new_memory_id}
       IN  supersede_items(its, conflict_ids, new_memory_id, supersede_at)

\* _normalize_relation_predicate and _normalize_relation_object of a
\* candidate that names neither: "<type>_fact" and the fact text.
RelationPredicate(mem_type) ==
  CASE mem_type = "profile" -> "profile_fact"
    [] mem_type = "preference" -> "preference_fact"
    [] mem_type = "task_state" -> "task_state_fact"
    [] mem_type = "constraint" -> "constraint_fact"
    [] OTHER -> "episode_fact"

\* _sync_relation_for_item
sync_relation_for_item(rels, scope, memory_id, mem_type, subject_key, fact, confidence, evidence_count) ==
  IF mem_type \notin RelationTypes THEN rels
  ELSE IF subject_key = "" \/ fact = "" THEN rels
  ELSE upsert_relation(rels, scope, subject_key, RelationPredicate(mem_type),
                       fact, Max(0, Min(One, confidence)), Max(1, evidence_count),
                       memory_id, mem_type, now)

\* Variant: a merge that leaves evidence_count as it was.
MergeValuesSameCount(existing, cand, linked, eids, write_policy) ==
  [fact |-> existing.fact, subject_key |-> existing.subject_key,
   confidence |-> existing.confidence,
   importance |-> Max(existing.importance, cand.importance),
   evidence_count |-> existing.evidence_count, status |-> existing.status,
   new_event_ids |-> SelectSeq(eids, LAMBDA e : e \notin linked)]

\* Variant: the evidence gate promotes an item of any status.
MergeValuesPromoteAny(existing, cand, linked, eids, write_policy) ==
  LET new_event_ids == SelectSeq(eids, LAMBDA e : e \notin linked)
      new_evidence_count == existing.evidence_count + Len(new_event_ids)
  IN  [fact |-> existing.fact, subject_key |-> existing.subject_key,
       confidence |-> existing.confidence,
       importance |-> Max(existing.importance, cand.importance),
       evidence_count |-> new_evidence_count,
       status |-> IF new_evidence_count >= Max(1, write_policy.min_evidence_count)
                  THEN resolve_status_for_policy(cand.type, write_policy)
                  ELSE existing.status,
       new_event_ids |-> new_event_ids]

\* The merge path's arithmetic (writer.py, the existing-item branch), from
\* the row read and the evidence ids found linked.
MergeValues(existing, cand, linked, eids, write_policy) ==
  LET new_event_ids == SelectSeq(eids, LAMBDA e : e \notin linked)
      added_evidence == Len(new_event_ids)
      new_evidence_count == existing.evidence_count + added_evidence
      repetition_bonus == Min(15, 10 + (new_evidence_count - 1))
      scored_confidence ==
        Min(One, (cand.confidence * SourceWeightLlmExtract * repetition_bonus) \div 10000)
      new_confidence ==
        IF added_evidence > 0
        THEN (existing.confidence * existing.evidence_count
              + scored_confidence * added_evidence) \div new_evidence_count
        ELSE existing.confidence
      new_fact ==
        IF added_evidence > 0 /\ scored_confidence > existing.confidence
        THEN cand.fact ELSE existing.fact
      new_subject_key ==
        IF existing.subject_key # "" THEN existing.subject_key ELSE cand.subject_key
      new_status ==
        IF /\ existing.status = "shadow"
           /\ new_evidence_count >= Max(1, write_policy.min_evidence_count)
        THEN resolve_status_for_policy(cand.type, write_policy)
        ELSE existing.status
  IN  [fact |-> new_fact, subject_key |-> new_subject_key,
       confidence |-> Min(One, new_confidence),
       importance |-> Max(existing.importance, cand.importance),
       evidence_count |-> new_evidence_count, status |-> new_status,
       new_event_ids |-> new_event_ids]

ItemChanged(existing, u) ==
  \/ u.fact # existing.fact
  \/ u.subject_key # existing.subject_key
  \/ u.confidence # existing.confidence
  \/ u.importance # existing.importance
  \/ u.evidence_count # existing.evidence_count
  \/ u.status # existing.status

\* ------------------------------------------------- positions of a cycle
CandidatePcs == {"lookup", "linked", "update", "evidence_m", "post_m",
                 "count", "victim", "evict", "insert", "evidence_n", "post_n"}

Running(w) == wk[w].pc \notin {"idle", "start"}

\* The group the cycle is at, and the evidence ids of its candidates:
\* list(dict.fromkeys(event_ids[:3])).
CurrentGroup(w) == Head(wk[w].groups)
EvidenceEventIds(w) == Dedup(Take(CurrentGroup(w), EvidenceLimit))

KeyOf(w) == <<events[Head(CurrentGroup(w))].scope, wk[w].cand.fact_key>>
ScopeOf(w) == events[Head(CurrentGroup(w))].scope

Step(w, r) ==
  /\ wk' = [wk EXCEPT ![w] = r]
  /\ UNCHANGED extraction_pending

\* Variant: _run with an if in the place of its while loop.
FinishOnce(w) ==
  IF w \in Tasks /\ extraction_pending /\ wk[w].pc = "start"
  THEN /\ wk' = [wk EXCEPT ![w] = [IdleWorker EXCEPT !.pc = "fetch"]]
       /\ extraction_pending' = FALSE
  ELSE /\ wk' = [wk EXCEPT ![w] = IdleWorker]
       /\ UNCHANGED extraction_pending

\* process_pending_events returns (or raises).  A direct call is over; in
\* the task of schedule_extraction the loop of _run tests the pending flag
\* and, with no await in between, starts the next cycle or ends the task.
Finish(w) ==
  IF w \in Tasks /\ extraction_pending
  THEN /\ wk' = [wk EXCEPT ![w] = [IdleWorker EXCEPT !.pc = "fetch"]]
       /\ extraction_pending' = FALSE
  ELSE /\ wk' = [wk EXCEPT ![w] = IdleWorker]
       /\ UNCHANGED extraction_pending

\* Variant: the cycle ends with the group.
AbortCycle(w) == Finish(w)

\* continue: the next group of the batch, or the end of the cycle.
AfterGroup(w) ==
  IF Tail(wk[w].groups) = << >>
  THEN Finish(w)
  ELSE Step(w, [IdleWorker EXCEPT !.pc = "group", !.groups = Tail(wk[w].groups)])

\* _process_candidate returned ret ("true", "false") or raised ("raised").
AfterCandidate(w, ret) ==
  Step(w, [IdleWorker EXCEPT
             !.pc = IF Tail(wk[w].cands) = << >> THEN "endgroup" ELSE "lookup",
             !.groups = wk[w].groups,
             !.cands = Tail(wk[w].cands),
             !.had_errors = wk[w].had_errors \/ ret = "raised",
             !.ret = ret])

\* The observation of a submission: n counts the submissions of a key that
\* came with exactly one event not yet linked to the key's item; clean is
\* lost by any other submission, by a rejection and by an error.
Observe(key, one_fresh) ==
  hist' = [hist EXCEPT ![key] =
             IF one_fresh /\ @.clean THEN [@ EXCEPT !.n = @ + 1]
             ELSE [@ EXCEPT !.clean = FALSE]]

Unclean(key) == hist' = [hist EXCEPT ![key].clean = FALSE]

\* ------------------------------------------------------------ environment
\* record_event: one new memory_events row.
RecordEvent(scope, has_text) ==
  /\ events' = Append(events, NewEvent(scope, has_text))
  /\ UNCHANGED <<now, policy, rd, mt, items, evidence, relations, next_id,
                 session_writes, hourly_writes, wk, extraction_task,
                 extraction_pending, cons, faults, hist>>

\* Time passes, up to the next instant at which a scheduled retry is due.
Tick ==
  LET due == {events[i].next_retry_at : i \in DOMAIN events} \ {NoTime}
      later == {t \in due : t > now}
  IN  /\ later # {}
      /\ now' = CHOOSE t \in later : \A u \in later : t <= u
      /\ UNCHANGED <<policy, rd, mt, events, items, evidence, relations, next_id,
                     session_writes, hourly_writes, wk, extraction_task,
                     extraction_pending, cons, faults, hist>>

\* on_session_end -> reset_session_counts
on_session_end ==
  /\ \E sc \in Scopes : session_writes[sc] > 0
  /\ session_writes' = [sc \in Scopes |-> 0]
  /\ UNCHANGED <<now, policy, rd, mt, events, items, evidence, relations, next_id,
                 hourly_writes, wk, extraction_task, extraction_pending,
                 cons, faults, hist>>

\* ---------------------------------------------------------------- manager
\* Variant: schedule_extraction without the test of the running task.
TaskNeverInFlight == FALSE

\* _extraction_task and not _extraction_task.done()
TaskInFlight ==
  extraction_task # NoTask /\ wk[extraction_task].pc # "idle"

\* schedule_extraction: set the flag; create the task unless one is in flight.
schedule_extraction ==
  /\ extraction_pending' = TRUE
  /\ IF TaskInFlight
     THEN UNCHANGED <<wk, extraction_task>>
     ELSE \E t \in Tasks :
            /\ wk[t].pc = "idle"
            /\ \A u \in Tasks : wk[u].pc = "idle" => t <= u
            /\ wk' = [wk EXCEPT ![t].pc = "start"]
            /\ extraction_task' = t
  /\ UNCHANGED <<now, policy, rd, mt, events, items, evidence, relations, next_id,
                 session_writes, hourly_writes, cons, faults, hist>>

\* The task starts: _run's first test of the pending flag.
TaskStart(t) ==
  /\ t \in Tasks
  /\ wk[t].pc = "start"
  /\ Finish(t)
  /\ UNCHANGED <<now, policy, rd, mt, events, items, evidence, relations, next_id,
                 session_writes, hourly_writes, extraction_task, cons,
                 faults, hist>>

\* ----------------------------------------------- process_pending_events
\* get_unprocessed_events and the grouping; an empty batch returns 0.
FetchBatch(w) ==
  LET batch == IF policy.enable
               THEN get_unprocessed_events(events, BatchSize, now)
               ELSE << >>
  IN  IF batch = << >>
      THEN Finish(w)
      ELSE Step(w, [IdleWorker EXCEPT !.pc = "group",
                                      !.groups = GroupEvents(events, batch)])

\* run_extraction_cycle called directly (the dashboard, the tests): the call
\* runs up to its first database call, the fetch of the batch.
run_extraction_cycle(c) ==
  /\ c \in Callers
  /\ wk[c].pc = "idle"
  /\ FetchBatch(c)
  /\ UNCHANGED <<now, policy, rd, mt, events, items, evidence, relations, next_id,
                 session_writes, hourly_writes, extraction_task, cons,
                 faults, hist>>

\* The fetch of the batch in a cycle of the background task.
Fetch(t) ==
  /\ t \in Tasks
  /\ wk[t].pc = "fetch"
  /\ FetchBatch(t)
  /\ UNCHANGED <<now, policy, rd, mt, events, items, evidence, relations, next_id,
                 session_writes, hourly_writes, extraction_task, cons,
                 faults, hist>>

\* get_unprocessed_events raises: process_pending_events raises to its caller
\* (_run logs it and goes on with its loop).
FetchRaises(w) ==
  /\ wk[w].pc = IF w \in Callers THEN "idle" ELSE "fetch"
  /\ faults < MaxFaults
  /\ faults' = faults + 1
  /\ Finish(w)
  /\ UNCHANGED <<now, policy, rd, mt, events, items, evidence, relations, next_id,
                 session_writes, hourly_writes, extraction_task, cons, hist>>

HasMessages(w) == \E i \in Range(CurrentGroup(w)) : events[i].has_text

\* A group none of whose events has text: marked processed, no extraction.
GroupNoMessages(w) ==
  /\ wk[w].pc = "group"
  /\ ~HasMessages(w)
  /\ events' = mark_events_processed(events, CurrentGroup(w))
  /\ AfterGroup(w)
  /\ UNCHANGED <<now, policy, rd, mt, items, evidence, relations, next_id,
                 session_writes, hourly_writes, extraction_task, cons,
                 faults, hist>>

\* extract_candidates returns the candidates cs.
ExtractReturns(w, cs) ==
  /\ wk[w].pc = "group"
  /\ HasMessages(w)
  /\ Step(w, [wk[w] EXCEPT !.pc = IF cs = << >> THEN "endgroup" ELSE "lookup",
                           !.cands = cs, !.had_errors = FALSE])
  /\ UNCHANGED <<now, policy, rd, mt, events, items, evidence, relations, next_id,
                 session_writes, hourly_writes, extraction_task, cons,
                 faults, hist>>

\* extract_candidates raises: retry for the whole group, next group.
ExtractRaises(w) ==
  /\ wk[w].pc = "group"
  /\ HasMessages(w)
  /\ events' = schedule_retry(events, CurrentGroup(w), "extract")
  /\ AfterGroup(w)
  /\ UNCHANGED <<now, policy, rd, mt, items, evidence, relations, next_id,
                 session_writes, hourly_writes, extraction_task, cons,
                 faults, hist>>

\* After the candidates: retry for the group if one of them raised, else
\* the group's events are marked processed.
EndGroup(w) ==
  /\ wk[w].pc = "endgroup"
  /\ events' = IF wk[w].had_errors
               THEN schedule_retry(events, CurrentGroup(w), "pipeline")
               ELSE mark_events_processed(events, CurrentGroup(w))
  /\ AfterGroup(w)
  /\ UNCHANGED <<now, policy, rd, mt, items, evidence, relations, next_id,
                 session_writes, hourly_writes, extraction_task, cons,
                 faults, hist>>

\* ----------------------------------------------------- _process_candidate
\* A database call of _process_candidate raises (a fault of the store).
\* The evidence links of a new item are written under a try/except that
\* swallows the error, so nothing raises at that position.
CandidateRaises(w) ==
  /\ wk[w].pc \in CandidatePcs \ {"evidence_n"}
  /\ faults < MaxFaults
  /\ faults' = faults + 1
  /\ AfterCandidate(w, "raised")
  /\ IF wk[w].pc = "lookup"
     THEN Unclean(<<ScopeOf(w), Head(wk[w].cands).fact_key>>)
     ELSE Unclean(KeyOf(w))
  /\ UNCHANGED <<now, policy, rd, mt, events, items, evidence, relations, next_id,
                 session_writes, hourly_writes, extraction_task, cons>>

\* Variant: the rate limits and the capacity are tested before the lookup
\* of the fact_key.
LookupLimitsFirst(w) ==
  /\ wk[w].pc = "lookup"
  /\ LET cand == Head(wk[w].cands)
         scope == ScopeOf(w)
         key == <<scope, cand.fact_key>>
         existing == get_item_by_fact_key(items, scope, cand.fact_key)
         eids == EvidenceEventIds(w)
         pruned == prune_hourly_writes(hourly_writes)
         r == [wk[w] EXCEPT !.cand = cand, !.existing = existing, !.eids = eids]
     IN  IF \/ Len(pruned) >= policy.max_writes_per_hour
            \/ session_writes[scope] >= policy.max_writes_per_session
            \/ /\ count_items_for_scope(items, scope) >= policy.max_items_per_scope
               /\ ~policy.eviction_enabled
         THEN /\ AfterCandidate(w, "false")
              /\ Unclean(key)
              /\ UNCHANGED hourly_writes
         ELSE IF existing # NoItem
         THEN /\ Step(w, [r EXCEPT !.pc = "linked"])
              /\ Observe(key, Len(eids) = 1)
              /\ UNCHANGED hourly_writes
         ELSE /\ hourly_writes' = pruned
              /\ Step(w, [r EXCEPT !.pc = "count"])
              /\ Observe(key, Len(eids) = 1)
  /\ UNCHANGED <<now, policy, rd, mt, events, items, evidence, relations, next_id,
                 session_writes, extraction_task, cons, faults>>

\* The validation, get_item_by_fact_key and, for a new fact_key, the rate
\* limits (no await lies between them).
Lookup(w) ==
  /\ wk[w].pc = "lookup"
  /\ LET cand == Head(wk[w].cands)
         scope == ScopeOf(w)
         key == <<scope, cand.fact_key>>
         existing == get_item_by_fact_key(items, scope, cand.fact_key)
         eids == EvidenceEventIds(w)
         fresh == {e \in Range(eids) : <<existing.memory_id, e>> \notin evidence}
         pruned == prune_hourly_writes(hourly_writes)
         r == [wk[w] EXCEPT !.cand = cand, !.existing = existing, !.eids = eids]
     IN  IF cand.type = "" \/ cand.fact = "" \/ cand.fact_key = ""
            \/ cand.type \notin policy.allowed_types
         THEN /\ AfterCandidate(w, "false")
              /\ Unclean(key)
              /\ UNCHANGED hourly_writes
         ELSE IF existing # NoItem
         THEN /\ Step(w, [r EXCEPT !.pc = "linked"])
              /\ Observe(key, Len(eids) = 1 /\ Cardinality(fresh) = 1)
              /\ UNCHANGED hourly_writes
         ELSE /\ hourly_writes' = pruned
              /\ IF \/ Len(pruned) >= policy.max_writes_per_hour
                    \/ session_writes[scope] >= policy.max_writes_per_session
                 THEN AfterCandidate(w, "false") /\ Unclean(key)
                 ELSE /\ Step(w, [r EXCEPT !.pc = "count"])
                      /\ Observe(key, Len(eids) = 1)
  /\ UNCHANGED <<now, policy, rd, mt, events, items, evidence, relations, next_id,
                 session_writes, extraction_task, cons, faults>>

\* get_existing_evidence_event_ids and the merge arithmetic.
Linked(w) ==
  /\ wk[w].pc = "linked"
  /\ LET linked == get_existing_evidence_event_ids(evidence,
                       wk[w].existing.memory_id, wk[w].eids)
         u == MergeValues(wk[w].existing, wk[w].cand, linked, wk[w].eids, policy)
     IN  Step(w, [wk[w] EXCEPT !.pc = "update", !.upd = u,
                               !.new_ids = u.new_event_ids])
  /\ UNCHANGED <<now, policy, rd, mt, events, items, evidence, relations, next_id,
                 session_writes, hourly_writes, extraction_task, cons,
                 faults, hist>>

\* update_item, when a value changed.
Update(w) ==
  /\ wk[w].pc = "update"
  /\ items' = IF ItemChanged(wk[w].existing, wk[w].upd)
              THEN update_item_merge(items, wk[w].existing.memory_id, wk[w].upd)
              ELSE items
  /\ Step(w, [wk[w] EXCEPT !.pc = "evidence_m"])
  /\ UNCHANGED <<now, policy, rd, mt, events, evidence, relations, next_id,
                 session_writes, hourly_writes, extraction_task, cons,
                 faults, hist>>

\* insert_evidence for the newly seen events; a duplicate link raises.
EvidenceMerge(w) ==
  /\ wk[w].pc = "evidence_m"
  /\ LET res == InsertEvidenceAll(evidence, wk[w].existing.memory_id, wk[w].new_ids)
     IN  /\ evidence' = res.evidence
         /\ IF res.raised
            THEN AfterCandidate(w, "raised") /\ Unclean(KeyOf(w))
            ELSE Step(w, [wk[w] EXCEPT !.pc = "post_m"]) /\ UNCHANGED hist
  /\ UNCHANGED <<now, policy, rd, mt, events, items, relations, next_id,
                 session_writes, hourly_writes, extraction_task, cons, faults>>

\* Supersession and relation sync of an item that is active after the merge.
PostMerge(w) ==
  /\ wk[w].pc = "post_m"
  /\ LET ex == wk[w].existing
         u == wk[w].upd
     IN  /\ IF u.status = "active"
            THEN /\ items' = apply_temporal_supersede(items, ex.scope,
                                wk[w].cand.type, u.subject_key, ex.fact_key,
                                ex.memory_id, policy, now)
                 /\ relations' = sync_relation_for_item(relations, ex.scope,
                                    ex.memory_id, wk[w].cand.type,
                                    u.subject_key, u.fact, u.confidence,
                                    u.evidence_count)
            ELSE UNCHANGED <<items, relations>>
         /\ AfterCandidate(w, IF ItemChanged(ex, u) \/ wk[w].new_ids # << >>
                              THEN "true" ELSE "false")
  /\ UNCHANGED <<now, policy, rd, mt, events, evidence, next_id, session_writes,
                 hourly_writes, extraction_task, cons, faults, hist>>

\* min(1.0, base_confidence * source_weight) of a new item.
ScoredConfidence(cand) == Min(One, (cand.confidence * SourceWeightLlmExtract) \div One)

\* Variant: the status of a new item is the policy's mode alone.
InitialStatusOfMode(mem_type, write_policy) ==
  resolve_status_for_policy(mem_type, write_policy)

\* The status of a new item: the policy's mode, and shadow under an evidence gate.
InitialStatus(mem_type, write_policy) ==
  IF 1 < Max(1, write_policy.min_evidence_count) THEN "shadow"
  ELSE resolve_status_for_policy(mem_type, write_policy)

\* retention.get(mem_type), None when negative.
TtlDays(mem_type) ==
  IF DEFAULT_RETENTION_DAYS[mem_type] < 0 THEN NoTtl ELSE DEFAULT_RETENTION_DAYS[mem_type]

\* The confidence threshold of the new-item path, then the insert.
ThresholdThenInsert(w, r) ==
  IF ScoredConfidence(wk[w].cand) < policy.min_confidence
  THEN AfterCandidate(w, "false") /\ Unclean(KeyOf(w))
  ELSE Step(w, [r EXCEPT !.pc = "insert"]) /\ UNCHANGED hist

\* count_items_for_scope against max_items_per_scope.
Count(w) ==
  /\ wk[w].pc = "count"
  /\ LET current_count == count_items_for_scope(items, ScopeOf(w))
     IN  IF current_count >= policy.max_items_per_scope
         THEN IF ~policy.eviction_enabled
              THEN AfterCandidate(w, "false") /\ Unclean(KeyOf(w))
              ELSE Step(w, [wk[w] EXCEPT !.pc = "victim"]) /\ UNCHANGED hist
         ELSE ThresholdThenInsert(w, wk[w])
  /\ UNCHANGED <<now, policy, rd, mt, events, items, evidence, relations, next_id,
                 session_writes, hourly_writes, extraction_task, cons, faults>>

\* Variant: a candidate whose priority ties with the victim's evicts it.
VictimTieEvicts(w) ==
  /\ wk[w].pc = "victim"
  /\ LET victims == get_eviction_candidates(items, ScopeOf(w))
         new_score == compute_priority_score(wk[w].cand.importance,
                                             wk[w].cand.confidence)
     IN  IF victims = {}
         THEN AfterCandidate(w, "false") /\ Unclean(KeyOf(w))
         ELSE \E v \in victims :
                IF new_score < compute_priority_score(v.importance, v.confidence)
                THEN AfterCandidate(w, "false") /\ Unclean(KeyOf(w))
                ELSE /\ Step(w, [wk[w] EXCEPT !.pc = "evict",
                                              !.victim = v.memory_id])
                     /\ UNCHANGED hist
  /\ UNCHANGED <<now, policy, rd, mt, events, items, evidence, relations, next_id,
                 session_writes, hourly_writes, extraction_task, cons, faults>>

\* get_eviction_candidates(limit=1) and the comparison of the scores.
Victim(w) ==
  /\ wk[w].pc = "victim"
  /\ LET victims == get_eviction_candidates(items, ScopeOf(w))
         new_score == compute_priority_score(wk[w].cand.importance,
                                             wk[w].cand.confidence)
     IN  IF victims = {}
         THEN AfterCandidate(w, "false") /\ Unclean(KeyOf(w))
         ELSE \E v \in victims :
                IF new_score <= compute_priority_score(v.importance, v.confidence)
                THEN AfterCandidate(w, "false") /\ Unclean(KeyOf(w))
                ELSE /\ Step(w, [wk[w] EXCEPT !.pc = "evict",
                                              !.victim = v.memory_id])
                     /\ UNCHANGED hist
  /\ UNCHANGED <<now, policy, rd, mt, events, items, evidence, relations, next_id,
                 session_writes, hourly_writes, extraction_task, cons, faults>>

\* update_item(victim.memory_id, status="expired")
Evict(w) ==
  /\ wk[w].pc = "evict"
  /\ items' = update_item_status(items, wk[w].victim, "expired")
  /\ ThresholdThenInsert(w, wk[w])
  /\ UNCHANGED <<now, policy, rd, mt, events, evidence, relations, next_id,
                 session_writes, hourly_writes, extraction_task, cons, faults>>

\* insert_item; the unique constraint on (scope, scope_id, fact_key) makes
\* the insert of a key that is there by now raise.
Insert(w) ==
  /\ wk[w].pc = "insert"
  /\ LET c == wk[w].cand
         status == InitialStatus(c.type, policy)
         id == <<ScopeOf(w), c.fact_key, next_id[KeyOf(w)]>>
     IN  IF ItemKeyTaken(items, ScopeOf(w), c.fact_key)
         THEN /\ AfterCandidate(w, "raised")
              /\ Unclean(KeyOf(w))
              /\ UNCHANGED <<items, next_id>>
         ELSE /\ next_id[KeyOf(w)] <= MaxIds
              /\ items' = insert_item(items,
                            NewItem(id, ScopeOf(w), c.type, c.fact,
                                    c.fact_key, c.subject_key,
                                    ScoredConfidence(c), c.importance, 1,
                                    TtlDays(c.type), status, now))
              /\ next_id' = [next_id EXCEPT ![KeyOf(w)] = @ + 1]
              /\ Step(w, [wk[w] EXCEPT !.pc = "evidence_n", !.item_id = id,
                                       !.item_status = status])
              /\ UNCHANGED hist
  /\ UNCHANGED <<now, policy, rd, mt, events, evidence, relations, session_writes,
                 hourly_writes, extraction_task, cons, faults>>

\* The evidence links of the new item (errors swallowed), then the counters.
EvidenceNew(w) ==
  /\ wk[w].pc = "evidence_n"
  /\ evidence' = InsertEvidenceQuiet(evidence, wk[w].item_id, wk[w].eids)
  /\ hourly_writes' = Append(hourly_writes, now)
  /\ session_writes' = [session_writes EXCEPT ![ScopeOf(w)] = @ + 1]
  /\ Step(w, [wk[w] EXCEPT !.pc = "post_n"])
  /\ UNCHANGED <<now, policy, rd, mt, events, items, relations, next_id,
                 extraction_task, cons, faults, hist>>

\* insert_evidence of the new item raises for every event id: the errors are
\* swallowed, the item stays without links and the counters still grow.
EvidenceNewFails(w) ==
  /\ wk[w].pc = "evidence_n"
  /\ faults < MaxFaults
  /\ faults' = faults + 1
  /\ hourly_writes' = Append(hourly_writes, now)
  /\ session_writes' = [session_writes EXCEPT ![ScopeOf(w)] = @ + 1]
  /\ wk' = [wk EXCEPT ![w] = [wk[w] EXCEPT !.pc = "post_n"]]
  /\ UNCHANGED <<now, policy, rd, mt, events, items, evidence, relations,
                 next_id, extraction_task, extraction_pending, cons, hist>>

\* Supersession and relation sync of a new item inserted active.
PostNew(w) ==
  /\ wk[w].pc = "post_n"
  /\ LET c == wk[w].cand
     IN  /\ IF wk[w].item_status = "active"
            THEN /\ items' = apply_temporal_supersede(items, ScopeOf(w), c.type,
                                c.subject_key, c.fact_key, wk[w].item_id,
                                policy, now)
                 /\ relations' = sync_relation_for_item(relations, ScopeOf(w),
                                    wk[w].item_id, c.type, c.subject_key,
                                    c.fact, ScoredConfidence(c), 1)
            ELSE UNCHANGED <<items, relations>>
         /\ AfterCandidate(w, "true")
  /\ UNCHANGED <<now, policy, rd, mt, events, evidence, next_id, session_writes,
                 hourly_writes, extraction_task, cons, faults, hist>>

\* ------------------------------------------------------- MemoryConsolidator
\* SequenceMatcher(None, a, b).ratio() of the fact_keys of the model, in
\* thousandths: 2 * matches / (len(a) + len(b)).
KeySimilarity(a, b) ==
  IF a = b THEN 1000
  ELSE IF {a, b} = {"current_city_beijing", "current_city_shanghai"} THEN 732
  ELSE IF <<a, b>> = <<"current_city_beijing", "likes_tea">> THEN 207
  ELSE IF <<a, b>> = <<"likes_tea", "current_city_beijing">> THEN 138
  ELSE 200

\* ORDER BY importance DESC, updated_at DESC; rows that tie in insertion order.
ItemBefore(a, b) ==
  \/ a.importance > b.importance
  \/ /\ a.importance = b.importance
     /\ \/ a.updated_at > b.updated_at
        \/ a.updated_at = b.updated_at /\ a.memory_id < b.memory_id

RECURSIVE SortItems(_)
SortItems(its) ==
  IF its = {} THEN << >>
  ELSE LET first == CHOOSE a \in its : \A b \in its \ {a} : ItemBefore(a, b)
       IN  <<first>> \o SortItems(its \ {first})

\* target_time = as_of or datetime.now(), and the status filter: active, and
\* superseded too when as_of is given.
TargetTime(as_of) == IF as_of # NoTime THEN as_of ELSE now

StatusFilter(as_of) ==
  IF as_of # NoTime THEN {"active", "superseded"} ELSE {"active"}

\* Variant: the query without its status filter.
get_items_of_any_status(its, scope, min_confidence, limit, as_of) ==
  Take(SortItems({i \in its :
                    /\ i.scope = scope
                    /\ i.confidence >= min_confidence
                    /\ (i.valid_at = NoTime \/ i.valid_at <= TargetTime(as_of))
                    /\ (i.invalid_at = NoTime \/ i.invalid_at > TargetTime(as_of))}),
       limit)

\* get_active_items_for_scope; as_of = NoTime is the call without as_of.
get_active_items_for_scope(its, scope, min_confidence, limit, as_of) ==
  Take(SortItems({i \in its :
                    /\ i.scope = scope
                    /\ i.status \in StatusFilter(as_of)
                    /\ i.confidence >= min_confidence
                    /\ (i.valid_at = NoTime \/ i.valid_at <= TargetTime(as_of))
                    /\ (i.invalid_at = NoTime \/ i.invalid_at > TargetTime(as_of))}),
       limit)

\* _cluster_by_fact_key: greedy, each cluster around its first item.
RECURSIVE cluster_by_fact_key(_)
cluster_by_fact_key(rows) ==
  IF rows = << >> THEN << >>
  ELSE LET item_a == Head(rows)
           near(b) == KeySimilarity(item_a.fact_key, b.fact_key) >= MIN_KEY_SIMILARITY
           cluster == <<item_a>> \o SelectSeq(Tail(rows), near)
           others == SelectSeq(Tail(rows), LAMBDA b : ~near(b))
       IN  (IF Len(cluster) >= 2 THEN <<cluster>> ELSE << >>)
           \o cluster_by_fact_key(others)

\* by_type, in the order the types first come, and the clusters of each type.
RECURSIVE ClustersByType(_, _)
ClustersByType(rows, types) ==
  IF types = << >> THEN << >>
  ELSE cluster_by_fact_key(SelectSeq(rows, LAMBDA i : i.type = Head(types)))
       \o ClustersByType(rows, Tail(types))

ScopeClusters(rows) ==
  IF Len(rows) < 2 THEN << >>
  ELSE ClustersByType(rows, Dedup([k \in DOMAIN rows |-> rows[k].type]))

\* consolidated is the count _consolidate_scope returns, n_rows the number of
\* active rows it read.
IdleConsolidator == [pc |-> "idle", runs |-> 0, consolidated |-> 0]

ClusterIds(cluster) == {cluster[k].memory_id : k \in DOMAIN cluster}

RECURSIVE SumEvidence(_)
SumEvidence(cluster) ==
  IF cluster = << >> THEN 0
  ELSE Head(cluster).evidence_count + SumEvidence(Tail(cluster))

RECURSIVE MaxOf(_, _)
MaxOf(cluster, field) ==
  IF Len(cluster) = 1 THEN Head(cluster)[field]
  ELSE Max(Head(cluster)[field], MaxOf(Tail(cluster), field))

\* Variant: a merged cluster counts as one.
NextClusterCountsOne(ok) ==
  LET consolidated == cons.consolidated + (IF ok THEN 1 ELSE 0)
  IN  cons' = IF Len(cons.clusters) > 1
              THEN [pc |-> "merge", runs |-> cons.runs, scope |-> cons.scope,
                    clusters |-> Tail(cons.clusters), n_rows |-> cons.n_rows,
                    consolidated |-> consolidated]
              ELSE [pc |-> "idle", runs |-> cons.runs,
                    consolidated |-> consolidated]

\* The loop over the clusters goes on, or _consolidate_scope returns; ok
\* tells that _merge_cluster returned True (consolidated += len(cluster)).
NextCluster(ok) ==
  LET consolidated ==
        cons.consolidated + (IF ok THEN Len(Head(cons.clusters)) ELSE 0)
  IN  cons' = IF Len(cons.clusters) > 1
              THEN [pc |-> "merge", runs |-> cons.runs, scope |-> cons.scope,
                    clusters |-> Tail(cons.clusters), n_rows |-> cons.n_rows,
                    consolidated |-> consolidated]
              ELSE [pc |-> "idle", runs |-> cons.runs,
                    consolidated |-> consolidated]

\* _consolidate_scope: the active items of the scope and their clusters.
ConsolidateScope(scope) ==
  /\ cons.pc = "idle"
  /\ cons.runs < MaxConsolidations
  /\ LET rows == get_active_items_for_scope(items, scope, 0, ConsolidationLimit, NoTime)
         clusters == ScopeClusters(rows)
     IN  /\ clusters # << >>
         /\ cons' = [pc |-> "merge", runs |-> cons.runs + 1, scope |-> scope,
                      clusters |-> clusters, n_rows |-> Len(rows),
                      consolidated |-> 0]
  /\ UNCHANGED <<now, policy, rd, mt, events, items, evidence, relations, next_id,
                 session_writes, hourly_writes, wk, extraction_task,
                 extraction_pending, faults, hist>>

\* _merge_cluster: the provider fails or replies nothing usable.
MergeFails ==
  /\ cons.pc = "merge"
  /\ NextCluster(FALSE)
  /\ UNCHANGED <<now, policy, rd, mt, events, items, evidence, relations, next_id,
                 session_writes, hourly_writes, wk, extraction_task,
                 extraction_pending, faults, hist>>

\* _merge_cluster: the provider names new_key; get_item_by_fact_key.
MergeLookup(new_key) ==
  /\ cons.pc = "merge"
  /\ LET cluster == Head(cons.clusters)
         existing == get_item_by_fact_key(items, cons.scope, new_key)
         r == [cons EXCEPT !.pc = "delete"] @@
              [new_key |-> new_key, existing |-> existing,
               todo |-> [k \in DOMAIN cluster |-> cluster[k].memory_id]]
     IN  cons' = IF existing # NoItem /\ existing.memory_id \notin ClusterIds(cluster)
                 THEN [r EXCEPT !.pc = "update"]
                 ELSE r
  /\ UNCHANGED <<now, policy, rd, mt, events, items, evidence, relations, next_id,
                 session_writes, hourly_writes, wk, extraction_task,
                 extraction_pending, faults, hist>>

\* Key collision with an item outside the cluster: update_item on it.
MergeUpdate ==
  /\ cons.pc = "update"
  /\ LET cluster == Head(cons.clusters)
         ex == cons.existing
     IN  items' = {IF i.memory_id = ex.memory_id
                   THEN [i EXCEPT !.fact = "merged",
                                  !.confidence = Min(One, MaxOf(cluster, "confidence")),
                                  !.importance = Min(One, MaxOf(cluster, "importance")),
                                  !.evidence_count = ex.evidence_count + SumEvidence(cluster),
                                  !.updated_at = now]
                   ELSE i : i \in items}
  /\ cons' = [cons EXCEPT !.pc = "mark"]
  /\ UNCHANGED <<now, policy, rd, mt, events, evidence, relations, next_id,
                 session_writes, hourly_writes, wk, extraction_task,
                 extraction_pending, faults, hist>>

\* update_item(item.memory_id, status="consolidated") for one cluster item.
MergeMark ==
  /\ cons.pc = "mark"
  /\ items' = update_item_status(items, Head(cons.todo), "consolidated")
  /\ IF Len(cons.todo) > 1
     THEN cons' = [cons EXCEPT !.todo = Tail(@)]
     ELSE NextCluster(TRUE)
  /\ UNCHANGED <<now, policy, rd, mt, events, evidence, relations, next_id,
                 session_writes, hourly_writes, wk, extraction_task,
                 extraction_pending, faults, hist>>

\* delete_item for one cluster item: its evidence rows, then the row.
MergeDelete ==
  /\ cons.pc = "delete"
  /\ items' = {i \in items : i.memory_id # Head(cons.todo)}
  /\ evidence' = {l \in evidence : l[1] # Head(cons.todo)}
  /\ cons' = IF Len(cons.todo) > 1 THEN [cons EXCEPT !.todo = Tail(@)]
             ELSE [cons EXCEPT !.todo = << >>, !.pc = "insert"]
  /\ UNCHANGED <<now, policy, rd, mt, events, relations, next_id, session_writes,
                 hourly_writes, wk, extraction_task, extraction_pending,
                 faults, hist>>

\* insert_item of the merged item; the unique constraint makes the insert of
\* a key that is there by now raise, which _consolidate_scope logs.
MergeInsert ==
  /\ cons.pc = "insert"
  /\ LET cluster == Head(cons.clusters)
         key == <<cons.scope, cons.new_key>>
     IN  IF ItemKeyTaken(items, cons.scope, cons.new_key)
         THEN UNCHANGED <<items, next_id>> /\ NextCluster(FALSE)
         ELSE /\ NextCluster(TRUE)
              /\ next_id[key] <= MaxIds
              /\ items' = insert_item(items,
                            NewItem(<<cons.scope, cons.new_key, next_id[key]>>,
                                    cons.scope, cluster[1].type, "merged",
                                    cons.new_key, "",
                                    Min(One, MaxOf(cluster, "confidence")),
                                    Min(One, MaxOf(cluster, "importance")),
                                    SumEvidence(cluster), NoTtl, "active", NoTime))
              /\ next_id' = [next_id EXCEPT ![key] = @ + 1]
  /\ UNCHANGED <<now, policy, rd, mt, events, evidence, relations, session_writes,
                 hourly_writes, wk, extraction_task, extraction_pending,
                 faults, hist>>

\* ------------------------------------------------------------- MemoryReader
\* MemoryReadPolicy with its defaults; the weights in hundredths.
ReadDefault ==
  [enable |-> TRUE, max_items |-> 15, max_tokens |-> 800, max_per_type |-> 5,
   min_confidence |-> 500, recency_weight |-> 30, importance_weight |-> 40,
   similarity_weight |-> 30, strategy |-> "balanced",
   include_relations |-> FALSE, max_relation_lines |-> 5,
   relation_only_mode |-> FALSE]

\* No call of retrieve_memory_context yet.  Of a call: the scope, the
\* policy and the as_of it was given, whether it raised, the items and the
\* relations whose lines the block holds, and the length of the returned
\* text, 0 for "".
NoRead ==
  [called |-> FALSE, scope |-> "", read_policy |-> ReadDefault,
   as_of |-> NoTime, raised |-> FALSE,
   relation_lines |-> << >>, selected |-> << >>, text_len |-> 0]

Day == 24 * 3600

\* _time_decay in thousandths, the age taken to 100 seconds; the half life
\* of 30 days is 25920 hundreds of seconds.
HalfLife == 25920

time_decay(updated_at) ==
  (One * HalfLife) \div (HalfLife + Max(0, now - updated_at) \div 100)

\* _estimate_tokens of a text of text_len characters.
estimate_tokens(text_len) == Max(1, text_len \div 4)

HeaderLine == "[Long-term Memory]"
FooterLine == "[End Memory]"

\* _estimate_tokens("[Long-term Memory]\n[End Memory]\n")
OverheadTokens == estimate_tokens(Len(HeaderLine) + 1 + Len(FooterLine) + 1)

\* The length of _format_single_item(item):
\* "- [" type "] " fact " (confidence: " d.dd ")".
format_single_item(item) ==
  Len("- [") + Len(item.type) + Len("] ") + Len(item.fact)
  + Len(" (confidence: ") + Len("0.00") + Len(")")

\* The length of _format_relation_line(relation):
\* "- [relation] " subject " --" predicate "--> " object " (confidence: " d.dd ")".
format_relation_line(relation) ==
  Len("- [relation] ") + Len(relation.subject_key) + Len(" --")
  + Len(relation.predicate) + Len("--> ") + Len(relation.object_text)
  + Len(" (confidence: ") + Len("0.00") + Len(")")

\* sum(len(line)) over the item lines, and over the relation lines.
RECURSIVE SumItemLines(_)
SumItemLines(selected) ==
  IF selected = << >> THEN 0
  ELSE format_single_item(Head(selected)) + SumItemLines(Tail(selected))

RECURSIVE SumRelationLines(_)
SumRelationLines(relation_lines) ==
  IF relation_lines = << >> THEN 0
  ELSE format_relation_line(Head(relation_lines))
       + SumRelationLines(Tail(relation_lines))

\* The length of _format_memory_block(items, relation_lines): the header,
\* the relation lines, the item lines and the footer joined by "\n".
format_memory_block(selected, relation_lines) ==
  Len(HeaderLine) + SumRelationLines(relation_lines) + SumItemLines(selected)
  + Len(FooterLine) + (Len(relation_lines) + Len(selected) + 1)

\* _get_item_weights: recency, importance, similarity, relation, in hundredths.
get_item_weights(read_policy) ==
  CASE read_policy.strategy = "recency_first" -> <<60, 20, 20, 0>>
    [] read_policy.strategy = "importance_first" -> <<20, 60, 20, 0>>
    [] read_policy.strategy = "similarity_first" -> <<20, 20, 60, 0>>
    [] read_policy.strategy = "relation_first" -> <<15, 20, 35, 30>>
    [] OTHER ->
         LET total == Max(1, read_policy.recency_weight
                             + read_policy.importance_weight
                             + read_policy.similarity_weight)
         IN  <<(100 * read_policy.recency_weight) \div total,
               (100 * read_policy.importance_weight) \div total,
               (100 * read_policy.similarity_weight) \div total, 0>>

\* scored.sort(key=score, reverse=True): stable, the higher score first.
RECURSIVE SortScored(_)
SortScored(scored) ==
  IF scored = << >> THEN << >>
  ELSE LET front == SortScored(SubSeq(scored, 1, Len(scored) - 1))
           last == scored[Len(scored)]
           ahead == SelectSeq(front, LAMBDA x : x.score >= last.score)
           behind == SelectSeq(front, LAMBDA x : x.score < last.score)
       IN  ahead \o <<last>> \o behind

\* _dedupe_items: one item per (type, fact_key) in the order the keys first
\* come, the one of the higher confidence and then the newer update kept.
RECURSIVE dedupe_items(_)
dedupe_items(fetched) ==
  IF fetched = << >> THEN << >>
  ELSE LET best == dedupe_items(SubSeq(fetched, 1, Len(fetched) - 1))
           item == fetched[Len(fetched)]
           Same(c) == c.type = item.type /\ c.fact_key = item.fact_key
           Better(c) == \/ item.confidence > c.confidence
                        \/ /\ item.confidence = c.confidence
                           /\ item.updated_at > c.updated_at
       IN  IF \E i \in DOMAIN best : Same(best[i])
           THEN [i \in DOMAIN best |->
                   IF Same(best[i]) /\ Better(best[i]) THEN item ELSE best[i]]
           ELSE Append(best, item)

\* get_active_relations_for_scope: ORDER BY confidence DESC,
\* updated_at DESC, the rows that tie in the order the database has them.
RelationBefore(a, b) ==
  \/ a.confidence > b.confidence
  \/ a.confidence = b.confidence /\ a.updated_at > b.updated_at

RECURSIVE SortRelations(_)
SortRelations(rels) ==
  IF rels = {} THEN << >>
  ELSE LET first == CHOOSE a \in rels : \A b \in rels : ~RelationBefore(b, a)
       IN  <<first>> \o SortRelations(rels \ {first})

get_active_relations_for_scope(rels, scope, min_confidence, limit, as_of) ==
  Take(SortRelations({r \in rels :
                        /\ r.scope = scope
                        /\ r.status \in StatusFilter(as_of)
                        /\ r.confidence >= min_confidence
                        /\ (r.valid_at = NoTime \/ r.valid_at <= TargetTime(as_of))
                        /\ (r.invalid_at = NoTime \/ r.invalid_at > TargetTime(as_of))}),
       limit)

\* _rank_relations without a query: similarity is the confidence.  The
\* score in hundred-thousandths.
rank_relations(fetched, read_policy) ==
  LET Score(r) ==
        CASE read_policy.strategy = "relation_first" ->
               55 * r.confidence + 30 * r.confidence + 15 * time_decay(r.updated_at)
          [] read_policy.strategy = "recency_first" ->
               55 * time_decay(r.updated_at) + 25 * r.confidence + 20 * r.confidence
          [] OTHER ->
               45 * r.confidence + 35 * r.confidence + 20 * time_decay(r.updated_at)
  IN  SortScored([i \in DOMAIN fetched |->
                    [row |-> fetched[i], score |-> Score(fetched[i])]])

\* _retrieve_relations of the one scope of the call.
retrieve_relations(rels, scope, read_policy, as_of) ==
  rank_relations(
    get_active_relations_for_scope(
      rels, scope, read_policy.min_confidence,
      Max(10, Max(1, read_policy.max_relation_lines) * 4), as_of),
    read_policy)

\* _build_relation_subject_scores: the boost of a subject in thousandths,
\* the highest of score * (1 - idx / top_n) over its relations among the
\* first top_n.
relation_subject_score(relation_ranked, subject_key) ==
  LET top_n == Min(20, Len(relation_ranked))
      Boost(i) == (Max(0, Min(100 * One, relation_ranked[i].score))
                   * (top_n - (i - 1))) \div (100 * top_n)
      own == {i \in 1..top_n : /\ relation_ranked[i].row.subject_key # ""
                               /\ relation_ranked[i].row.subject_key = subject_key}
  IN  IF own = {} THEN 0
      ELSE CHOOSE b \in {Boost(i) : i \in own} : \A i \in own : Boost(i) <= b

\* _rank_items without a query: similarity is the confidence.
rank_items(deduped, read_policy, relation_ranked) ==
  LET w == get_item_weights(read_policy)
      Score(item) ==
        w[2] * item.importance + w[1] * time_decay(item.updated_at)
        + w[3] * item.confidence
        + w[4] * relation_subject_score(relation_ranked, item.subject_key)
  IN  SortScored([i \in DOMAIN deduped |->
                    [row |-> deduped[i], score |-> Score(deduped[i])]])

\* _diversity_filter: at most max_per_type items of a type, the first ones.
RECURSIVE diversity_filter(_, _)
diversity_filter(ranked, read_policy) ==
  IF ranked = << >> THEN << >>
  ELSE LET result == diversity_filter(SubSeq(ranked, 1, Len(ranked) - 1), read_policy)
           last == ranked[Len(ranked)]
           same == {i \in DOMAIN result : result[i].row.type = last.row.type}
       IN  IF Cardinality(same) >= read_policy.max_per_type THEN result
           ELSE Append(result, last)

\* The loop of _apply_budget: stop at max_items, pass over (continue) an
\* item whose line does not fit, accept any later one that does.
RECURSIVE budget_loop(_, _, _, _)
budget_loop(rest, selected, total_tokens, read_policy) ==
  IF rest = << >> \/ Len(selected) >= read_policy.max_items THEN selected
  ELSE LET item == Head(rest).row
           line_tokens == estimate_tokens(format_single_item(item))
       IN  IF total_tokens + line_tokens + OverheadTokens > read_policy.max_tokens
           THEN budget_loop(Tail(rest), selected, total_tokens, read_policy)
           ELSE budget_loop(Tail(rest), Append(selected, item),
                            total_tokens + line_tokens, read_policy)

apply_budget(diversified, read_policy) ==
  budget_loop(diversified, << >>, 0, read_policy)

\* sum(_estimate_tokens(line)) over the item lines.
RECURSIVE SumItemTokens(_)
SumItemTokens(selected) ==
  IF selected = << >> THEN 0
  ELSE estimate_tokens(format_single_item(Head(selected)))
       + SumItemTokens(Tail(selected))

\* The loop of _select_relation_lines_with_budget.
RECURSIVE relation_loop(_, _, _, _, _)
relation_loop(rest, lines, used_tokens, read_policy, max_lines) ==
  IF rest = << >> \/ Len(lines) >= max_lines THEN lines
  ELSE LET relation == Head(rest).row
           line_tokens == estimate_tokens(format_relation_line(relation))
       IN  IF used_tokens + line_tokens > read_policy.max_tokens
           THEN relation_loop(Tail(rest), lines, used_tokens, read_policy, max_lines)
           ELSE relation_loop(Tail(rest), Append(lines, relation),
                              used_tokens + line_tokens, read_policy, max_lines)

select_relation_lines_with_budget(relation_ranked, selected_items, read_policy, max_lines) ==
  IF max_lines <= 0 \/ relation_ranked = << >> THEN << >>
  ELSE relation_loop(relation_ranked, << >>,
                     OverheadTokens + SumItemTokens(selected_items),
                     read_policy, max_lines)

\* retrieve_memory_context up to the diversity filter: the relations it
\* prefetches, and the ranked, diversity-filtered items.
prefetched_relations(rels, scope, read_policy, as_of) ==
  IF read_policy.include_relations \/ read_policy.strategy = "relation_first"
  THEN retrieve_relations(rels, scope, read_policy, as_of)
  ELSE << >>

fetched_items(its, scope, read_policy, as_of) ==
  get_active_items_for_scope(its, scope, read_policy.min_confidence,
                             Max(1, read_policy.max_items * 3), as_of)

diversified_items(its, rels, scope, read_policy, as_of) ==
  diversity_filter(
    rank_items(dedupe_items(fetched_items(its, scope, read_policy, as_of)),
               read_policy, prefetched_relations(rels, scope, read_policy, as_of)),
    read_policy)

\* MemoryReader.retrieve_memory_context(scope, scope_id, read_policy, as_of)
\* with no query and no additional scopes; as_of = NoTime is the call
\* without as_of.
retrieve_memory_context(its, rels, scope, read_policy, as_of) ==
  LET empty == [selected |-> << >>, relation_lines |-> << >>, text_len |-> 0]
      relation_ranked == prefetched_relations(rels, scope, read_policy, as_of)
      budgeted == apply_budget(diversified_items(its, rels, scope, read_policy, as_of),
                               read_policy)
      relation_lines ==
        IF read_policy.include_relations
        THEN select_relation_lines_with_budget(
               relation_ranked,
               IF read_policy.relation_only_mode THEN << >> ELSE budgeted,
               read_policy, Max(0, read_policy.max_relation_lines))
        ELSE << >>
      selected ==
        IF /\ read_policy.include_relations
           /\ read_policy.relation_only_mode
           /\ relation_lines # << >>
        THEN << >>
        ELSE budgeted
  IN  IF ~read_policy.enable THEN empty
      ELSE IF /\ fetched_items(its, scope, read_policy, as_of) = << >>
              /\ ~read_policy.include_relations
      THEN empty
      ELSE IF selected = << >> /\ relation_lines = << >> THEN empty
      ELSE [selected |-> selected, relation_lines |-> relation_lines,
            text_len |-> format_memory_block(selected, relation_lines)]

\* LTMManager.retrieve_memory_context(scope, scope_id, read_policy): one call
\* of the reader, which it gives no as_of.
Retrieve(scope, read_policy) ==
  /\ rd' = [called |-> TRUE, scope |-> scope, read_policy |-> read_policy,
            as_of |-> NoTime, raised |-> FALSE]
           @@ retrieve_memory_context(items, relations, scope, read_policy, NoTime)
  /\ UNCHANGED <<now, policy, mt, events, items, evidence, relations,
                 next_id,
                 session_writes, hourly_writes, wk, extraction_task,
                 extraction_pending, cons, faults, hist>>

\* LTMManager.retrieve_memory_context(..., as_of=as_of): the method has no
\* parameter of that name, the call raises TypeError before its body (and
\* its try) is entered, and nothing is read.
RetrieveAsOf(scope, read_policy, as_of) ==
  /\ as_of # NoTime
  /\ rd' = [called |-> TRUE, scope |-> scope, read_policy |-> read_policy,
            as_of |-> as_of, raised |-> TRUE,
            relation_lines |-> << >>, selected |-> << >>, text_len |-> 0]
  /\ UNCHANGED <<now, policy, mt, events, items, evidence, relations,
                 next_id,
                 session_writes, hourly_writes, wk, extraction_task,
                 extraction_pending, cons, faults, hist>>

\* MemoryReader.retrieve_memory_context(..., as_of=as_of) called on the
\* reader itself.
ReaderRetrieve(scope, read_policy, as_of) ==
  /\ as_of # NoTime
  /\ rd' = [called |-> TRUE, scope |-> scope, read_policy |-> read_policy,
            as_of |-> as_of, raised |-> FALSE]
           @@ retrieve_memory_context(items, relations, scope, read_policy, as_of)
  /\ UNCHANGED <<now, policy, mt, events, items, evidence, relations,
                 next_id,
                 session_writes, hourly_writes, wk, extraction_task,
                 extraction_pending, cons, faults, hist>>

\* Time passes: a day.
Elapse ==
  /\ now' = now + Day
  /\ UNCHANGED <<policy, rd, mt, events, items, evidence, relations, next_id,
                 session_writes, hourly_writes, wk, extraction_task,
                 extraction_pending, cons, faults, hist>>

\* ------------------------------------------------------------- maintenance
\* MemoryMaintenancePolicy.event_retention_days
EVENT_RETENTION_DAYS == 7

NoSweep ==
  [runs |-> 0, failed |-> {}, raised |-> FALSE,
   result |-> [expired |-> 0, events_cleaned |-> 0, evidence_pruned |-> 0]]

SubTasks == {"expire_old_items", "delete_processed_events", "prune_orphan_evidence"}

\* The WHERE clause of expire_old_items (the single UPDATE of the SQLite
\* path): a ttl_days that is set and positive, status active or shadow, and
\* an age of at least ttl_days days.
PastTtl(i) ==
  /\ i.ttl_days # NoTtl
  /\ i.ttl_days > 0
  /\ i.status \in {"active", "shadow"}
  /\ now - i.created_at >= i.ttl_days * Day

expire_old_items(its) ==
  {IF PastTtl(i) THEN [i EXCEPT !.status = "expired", !.updated_at = now] ELSE i :
     i \in its}

\* delete_processed_events: the rows that are processed and were created
\* before the cutoff; a deleted row keeps its place in events as a tombstone.
\* Variant: the WHERE clause without the test of processed.
PastRetentionAnyState(e, older_than_days) ==
  ~e.deleted /\ e.created_at < now - older_than_days * Day

PastRetention(e, older_than_days) ==
  ~e.deleted /\ e.processed /\ e.created_at < now - older_than_days * Day

delete_processed_events(evs, older_than_days) ==
  [k \in DOMAIN evs |->
     IF PastRetention(evs[k], older_than_days)
     THEN [evs[k] EXCEPT !.deleted = TRUE]
     ELSE evs[k]]

\* prune_orphan_evidence: the links whose memory_id is of no item.
Orphan(l, its) == \A i \in its : i.memory_id # l[1]

prune_orphan_evidence(evd, its) == {l \in evd : ~Orphan(l, its)}

\* Variant: the sub-tasks run without their try/except; the first failure
\* ends the sweep, which raises.
run_maintenance_sweep_unguarded(fails) ==
  LET first == IF "expire_old_items" \in fails THEN 1
               ELSE IF "delete_processed_events" \in fails THEN 2
               ELSE IF "prune_orphan_evidence" \in fails THEN 3 ELSE 4
      its == IF first > 1 THEN expire_old_items(items) ELSE items
      evs == IF first > 2 THEN delete_processed_events(events, EVENT_RETENTION_DAYS)
             ELSE events
      evd == IF first > 3 THEN prune_orphan_evidence(evidence, its) ELSE evidence
  IN  /\ mt.runs < MaxSweeps
      /\ items' = its
      /\ events' = evs
      /\ evidence' = evd
      /\ mt' = [runs |-> mt.runs + 1, failed |-> fails, raised |-> first < 4,
                result |-> [expired |-> Cardinality({i \in items : PastTtl(i)}),
                            events_cleaned |-> 0, evidence_pruned |-> 0]]
      /\ UNCHANGED <<now, policy, rd, relations, next_id, session_writes,
                     hourly_writes, wk, extraction_task, extraction_pending,
                     cons, faults, hist>>

\* run_maintenance_sweep: the three sub-tasks one after the other, each in
\* its own try/except; fails are the sub-tasks whose database call raises
\* (its transaction is rolled back).
run_maintenance_sweep(fails) ==
  LET expires == "expire_old_items" \notin fails
      cleans == "delete_processed_events" \notin fails
      prunes == "prune_orphan_evidence" \notin fails
      its == IF expires THEN expire_old_items(items) ELSE items
      evs == IF cleans THEN delete_processed_events(events, EVENT_RETENTION_DAYS)
             ELSE events
      evd == IF prunes THEN prune_orphan_evidence(evidence, its) ELSE evidence
  IN  /\ mt.runs < MaxSweeps
      /\ items' = its
      /\ events' = evs
      /\ evidence' = evd
      /\ mt' = [runs |-> mt.runs + 1, failed |-> fails, raised |-> FALSE,
                result |->
                  [expired |->
                     IF expires THEN Cardinality({i \in items : PastTtl(i)}) ELSE 0,
                   events_cleaned |->
                     IF cleans
                     THEN Cardinality({k \in DOMAIN events :
                                         PastRetention(events[k], EVENT_RETENTION_DAYS)})
                     ELSE 0,
                   evidence_pruned |->
                     IF prunes
                     THEN Cardinality({l \in evidence : Orphan(l, its)})
                     ELSE 0]]
      /\ UNCHANGED <<now, policy, rd, relations, next_id, session_writes,
                     hourly_writes, wk, extraction_task, extraction_pending,
                     cons, faults, hist>>

\* ------------------------------------------------------- specifications
InitStore ==
  /\ now = 0
  /\ events = << >>
  /\ items = {}
  /\ evidence = {}
  /\ relations = {}
  /\ next_id = [k \in Scopes \X FactKeys |-> 1]
  /\ session_writes = [sc \in Scopes |-> 0]
  /\ hourly_writes = << >>
  /\ wk = [w \in Workers |-> IdleWorker]
  /\ extraction_task = NoTask
  /\ extraction_pending = FALSE
  /\ cons = IdleConsolidator
  /\ faults = 0
  /\ hist = [k \in Scopes \X FactKeys |-> [n |-> 0, clean |-> TRUE]]
  /\ rd = NoRead
  /\ mt = NoSweep

\* Variant: the cancelled cycle marks its group processed on the way out
\* (a finally around the group).
CancelMarksGroup(w) ==
  /\ wk[w].pc \in ({"group", "endgroup"} \cup CandidatePcs)
  /\ faults < MaxCancels
  /\ faults' = faults + 1
  /\ events' = mark_events_processed(events, CurrentGroup(w))
  /\ wk' = [wk EXCEPT ![w] = [IdleWorker EXCEPT !.ret = "cancelled"]]
  /\ UNCHANGED <<now, policy, rd, mt, items, evidence, relations, next_id,
                 session_writes, hourly_writes, extraction_task,
                 extraction_pending, cons, hist>>

\* The cycle is cancelled while it waits in a group: CancelledError is raised
\* at the await the cycle is suspended at (the extraction call, a database
\* call of a candidate, the call that closes the group before it takes
\* effect).  CancelledError is a BaseException, so no `except Exception` of
\* the group loop catches it: process_pending_events is left at once.  The
\* cancellations are counted with the injected faults.
Cancel(w) ==
  /\ wk[w].pc \in ({"group", "endgroup"} \cup CandidatePcs)
  /\ faults < MaxCancels
  /\ faults' = faults + 1
  /\ wk' = [wk EXCEPT ![w] = [IdleWorker EXCEPT !.ret = "cancelled"]]
  /\ UNCHANGED <<now, policy, rd, mt, events, items, evidence, relations, next_id,
                 session_writes, hourly_writes, extraction_task,
                 extraction_pending, cons, hist>>

\* The steps of process_pending_events around the candidates; the extraction
\* collaborator returns at most n candidates of pool.
CycleStep(w, pool, n) ==
  \/ \E cs \in CandSeqs(pool, n) : ExtractReturns(w, cs)
  \/ ExtractRaises(w)
  \/ EndGroup(w)

\* The steps of _process_candidate.
CandidateStep(w) ==
  \/ Lookup(w)
  \/ Linked(w)
  \/ Update(w)
  \/ EvidenceMerge(w)
  \/ PostMerge(w)
  \/ Count(w)
  \/ Victim(w)
  \/ Evict(w)
  \/ Insert(w)
  \/ EvidenceNew(w)
  \/ PostNew(w)

\* The steps of the consolidator on the scope.
ConsolidationStep(scope) ==
  \/ ConsolidateScope(scope)
  \/ MergeFails
  \/ \E new_key \in MergedKeys : MergeLookup(new_key)
  \/ MergeUpdate
  \/ MergeMark
  \/ MergeDelete
  \/ MergeInsert

\* SpecSeq: extraction cycles called directly, one after the other, at one
\* instant; the store may fail once.
InitSeq == InitStore /\ policy \in {PolicyAuto, PolicyGate, PolicySmall}

NextSeq ==
  \/ /\ Len(events) < MaxEvents
     /\ \E sc \in Scopes, has_text \in BOOLEAN : RecordEvent(sc, has_text)
  \/ on_session_end
  \/ run_extraction_cycle(1)
  \/ CycleStep(1, Cities, MaxCands)
  \/ GroupNoMessages(1)
  \/ CandidateStep(1)
  \/ FetchRaises(1)
  \/ CandidateRaises(1)

SpecSeq == InitSeq /\ [][NextSeq]_vars

\* SpecRetry: the same with the clock, on the events of one scope.
InitRetry == InitStore /\ policy \in {PolicyAuto, PolicySmall}

NextRetry ==
  \/ /\ Len(events) < MaxRetryEvents
     /\ \E has_text \in BOOLEAN : RecordEvent("u1", has_text)
  \/ Tick
  \/ on_session_end
  \/ run_extraction_cycle(1)
  \/ CycleStep(1, Cities, MaxCands)
  \/ GroupNoMessages(1)
  \/ CandidateStep(1)
  \/ FetchRaises(1)
  \/ CandidateRaises(1)

SpecRetry == InitRetry /\ [][NextRetry]_vars

\* SpecRace: the cycles of the direct callers and the consolidator run
\* concurrently on one scope.
InitRace == InitStore /\ policy = PolicySmall

NextRace ==
  \/ /\ Len(events) < MaxRaceEvents
     /\ RecordEvent("u1", TRUE)
  \/ \E c \in Callers : run_extraction_cycle(c)
  \/ \E c \in Callers : CycleStep(c, Candidates, MaxRaceCands)
  \/ \E c \in Callers : CandidateStep(c)
  \/ ConsolidationStep("u1")

SpecRace == InitRace /\ [][NextRace]_vars

\* SpecTask: the background extraction of schedule_extraction on one scope.
InitTask == InitStore /\ policy \in {PolicyAuto, PolicySmall}

NextTask ==
  \/ /\ Len(events) < MaxEvents
     /\ RecordEvent("u1", TRUE)
  \/ schedule_extraction
  \/ \E t \in Tasks : TaskStart(t)
  \/ \E t \in Tasks : Fetch(t)
  \/ \E t \in Tasks : CycleStep(t, Cities, MaxCands)
  \/ \E t \in Tasks : CandidateStep(t)
  \/ \E t \in Tasks : FetchRaises(t)

SpecTask == InitTask /\ [][NextTask]_vars

\* SpecLive: SpecTask where the event loop keeps running the task: each
\* database call and each call of the provider returns or raises.
TaskStep(t) ==
  \/ TaskStart(t)
  \/ Fetch(t)
  \/ CycleStep(t, Cities, MaxCands)
  \/ CandidateStep(t)

SpecLive == SpecTask /\ \A t \in Tasks : WF_vars(TaskStep(t))

\* SpecEvict: sequential cycles on one scope at its capacity, under policies
\* of capacity one and two, with and without eviction.
InitEvict ==
  InitStore /\ policy \in {PolicySmall, PolicyTwo, PolicyStrict, PolicyNoEvict}

NextEvict ==
  \/ /\ Len(events) < MaxEvictEvents
     /\ RecordEvent("u1", TRUE)
  \/ run_extraction_cycle(1)
  \/ CycleStep(1, EvictPool, MaxCands)
  \/ CandidateStep(1)

SpecEvict == InitEvict /\ [][NextEvict]_vars

\* SpecRead: one sequential caller under a shadow policy, an evidence gate, a
\* scope of one item or none of these, an operator who approves shadow
\* items, and the reader.
ReadRelations == [ReadDefault EXCEPT !.include_relations = TRUE]

ReadPolicies == {ReadDefault, ReadRelations}

\* MemoryDB.update_item(memory_id, status="active") on a shadow item, as the
\* dashboard's update route calls it.
approve_item(memory_id) ==
  /\ \E i \in items : i.memory_id = memory_id /\ i.status = "shadow"
  /\ items' = update_item_status(items, memory_id, "active")
  /\ UNCHANGED <<now, policy, rd, mt, events, evidence, relations, next_id,
                 session_writes, hourly_writes, wk, extraction_task,
                 extraction_pending, cons, faults, hist>>

InitRead ==
  InitStore /\ policy \in {PolicyAuto, PolicySmall, PolicyGate, PolicyShadow}

NextRead ==
  \/ /\ Len(events) < MaxReadEvents
     /\ RecordEvent("u1", TRUE)
  \/ run_extraction_cycle(1)
  \/ CycleStep(1, Cities, MaxCands)
  \/ CandidateStep(1)
  \/ \E i \in items : approve_item(i.memory_id)
  \/ \E sc \in Scopes, rp \in ReadPolicies : Retrieve(sc, rp)

SpecRead == InitRead /\ [][NextRead]_vars

\* SpecGate: one sequential caller under an evidence gate, on the events of
\* one scope.
InitGate == InitStore /\ policy \in GatePolicies

NextGate ==
  \/ /\ Len(events) < MaxGateEvents
     /\ RecordEvent("u1", TRUE)
  \/ run_extraction_cycle(1)
  \/ CycleStep(1, {CandTea, CandShanghai}, MaxCands)
  \/ CandidateStep(1)

SpecGate == InitGate /\ [][NextGate]_vars

\* SpecBudget: reads of a store the writer has filled.  The store holds any
\* of four facts of scope u1, written active 90, 60, 30 and 0 days before
\* the read, each with the relation the writer derives from it; the read
\* policy is the default one with another budget, diversity cap, relation
\* setting or strategy.
StoredItem(cand, age) ==
  [NewItem(<<"u1", cand.fact_key, 1>>, "u1", cand.type, cand.fact,
           cand.fact_key, cand.subject_key, ScoredConfidence(cand),
           cand.importance, 1, TtlDays(cand.type), "active", now - age)
     EXCEPT !.created_at = now - age, !.updated_at = now - age]

StoredRelations(i) ==
  {[r EXCEPT !.valid_at = i.valid_at, !.updated_at = i.updated_at] :
     r \in sync_relation_for_item({}, i.scope, i.memory_id, i.type,
                                  i.subject_key, i.fact, i.confidence,
                                  i.evidence_count)}

BudgetItems ==
  {StoredItem(CandJob, 90 * Day), StoredItem(CandTrip, 60 * Day),
   StoredItem(CandBeijing, 30 * Day), StoredItem(CandTea, 0)}

BudgetPolicies ==
  {[ReadDefault EXCEPT !.max_tokens = t, !.max_items = n, !.max_per_type = p,
                       !.include_relations = r[1], !.relation_only_mode = r[2],
                       !.strategy = s] :
     t \in {20, 29, 40, 800}, n \in {1, 2, 15}, p \in {1, 5},
     r \in {<<FALSE, FALSE>>, <<TRUE, FALSE>>, <<TRUE, TRUE>>},
     s \in {"balanced", "relation_first"}}

InitBudget ==
  /\ now = 90 * Day
  /\ \E stored \in SUBSET BudgetItems :
       /\ items = stored
       /\ relations = UNION {StoredRelations(i) : i \in stored}
  /\ events = << >>
  /\ evidence = {}
  /\ next_id = [k \in Scopes \X FactKeys |-> 1]
  /\ session_writes = [sc \in Scopes |-> 0]
  /\ hourly_writes = << >>
  /\ wk = [w \in Workers |-> IdleWorker]
  /\ extraction_task = NoTask
  /\ extraction_pending = FALSE
  /\ cons = IdleConsolidator
  /\ faults = 0
  /\ hist = [k \in Scopes \X FactKeys |-> [n |-> 0, clean |-> TRUE]]
  /\ policy = PolicyAuto
  /\ rd = NoRead
  /\ mt = NoSweep

NextBudget == \E sc \in Scopes, rp \in BudgetPolicies : Retrieve(sc, rp)

SpecBudget == InitBudget /\ [][NextBudget]_vars

\* SpecHistory: one sequential caller on the events of one scope while days
\* pass, and reads with and without as_of, through the manager and on the
\* reader.
AsOfTimes == {(d * Day) \div 2 : d \in 0..(2 * MaxHistoryDays)}

InitHistory == InitStore /\ policy \in {PolicyAuto, PolicySmall}

NextHistory ==
  \/ /\ Len(events) < MaxHistoryEvents
     /\ RecordEvent("u1", TRUE)
  \/ now < MaxHistoryDays * Day /\ Elapse
  \/ run_extraction_cycle(1)
  \/ CycleStep(1, Cities, 1)
  \/ CandidateStep(1)
  \/ Retrieve("u1", ReadDefault)
  \/ \E as_of \in AsOfTimes : RetrieveAsOf("u1", ReadDefault, as_of)
  \/ \E as_of \in AsOfTimes : ReaderRetrieve("u1", ReadDefault, as_of)

SpecHistory == InitHistory /\ [][NextHistory]_vars

\* SpecCancel: one sequential caller on the events of one scope; a cycle can
\* be cancelled while it is in a group.
InitCancel == InitStore /\ policy \in {PolicyAuto, PolicySmall}

NextCancel ==
  \/ /\ Len(events) < MaxCancelEvents
     /\ RecordEvent("u1", TRUE)
  \/ run_extraction_cycle(1)
  \/ CycleStep(1, Cities, MaxCands)
  \/ CandidateStep(1)
  \/ Cancel(1)

SpecCancel == InitCancel /\ [][NextCancel]_vars

\* The clock advances by the base delay of a retry.
Wait ==
  /\ now' = now + RETRY_BASE_DELAY_SECONDS
  /\ UNCHANGED <<policy, rd, mt, events, items, evidence, relations, next_id,
                 session_writes, hourly_writes, wk, extraction_task,
                 extraction_pending, cons, faults, hist>>

\* SpecFetch: one sequential caller on the events of one scope, recorded at
\* different times, with extractions that fail and retries that come due.
InitFetch == InitStore /\ policy \in {PolicyAuto, PolicySmall}

NextFetch ==
  \/ /\ Len(events) < MaxFetchEvents
     /\ \E has_text \in BOOLEAN : RecordEvent("u1", has_text)
  \/ now < MaxFetchSeconds /\ Wait
  \/ run_extraction_cycle(1)
  \/ CycleStep(1, Cities, 1)
  \/ GroupNoMessages(1)
  \/ CandidateStep(1)

SpecFetch == InitFetch /\ [][NextFetch]_vars

\* SpecLimits: sequential cycles on one scope under policies whose limits
\* the first write exhausts: a capacity of one without eviction, one write
\* per session, one write per hour, all of these, and a capacity of one
\* with eviction.
PolicyAllLimits ==
  [PolicyNoEvict EXCEPT !.max_writes_per_session = 1, !.max_writes_per_hour = 1]

LimitPolicies ==
  {PolicyNoEvict, PolicyAllLimits, PolicySmall,
   [PolicyAuto EXCEPT !.max_writes_per_session = 1],
   [PolicyAuto EXCEPT !.max_writes_per_hour = 1]}

InitLimits == InitStore /\ policy \in LimitPolicies

NextLimits ==
  \/ /\ Len(events) < MaxLimitEvents
     /\ RecordEvent("u1", TRUE)
  \/ run_extraction_cycle(1)
  \/ CycleStep(1, Cities, 1)
  \/ CandidateStep(1)

SpecLimits == InitLimits /\ [][NextLimits]_vars

\* SpecConsolidate: one caller and the consolidator take turns on one scope,
\* under a policy without temporal supersession and a capacity of two, so
\* that the two cities are active together.
PolicyKeepBoth ==
  [PolicyAuto EXCEPT !.enable_temporal_supersede = FALSE, !.max_items_per_scope = 2]

InitConsolidate == InitStore /\ policy = PolicyKeepBoth

NextConsolidate ==
  \/ /\ Len(events) < MaxConsolidateEvents
     /\ RecordEvent("u1", TRUE)
  \/ cons.pc = "idle" /\ run_extraction_cycle(1)
  \/ cons.pc = "idle" /\ CycleStep(1, Candidates, 1)
  \/ cons.pc = "idle" /\ CandidateStep(1)
  \/ wk[1].pc = "idle" /\ ConsolidationStep("u1")

SpecConsolidate == InitConsolidate /\ [][NextConsolidate]_vars

\* SpecSweep: maintenance sweeps on a store the writer has filled.  The
\* store holds any of an episode past its TTL, a preference within its TTL
\* and a profile without one, up to MaxSweepEvents events that are processed
\* or pending, a day or ten days old, or ten days old with a retry scheduled
\* or dead-lettered, and evidence links of the first event,
\* also to items that are gone.  Any of the three sub-tasks of a sweep fails.
SweepItems ==
  {StoredItem(CandTrip, 40 * Day), StoredItem(CandTea, 10 * Day),
   StoredItem(CandBeijing, SweepDay * Day)}

StoredEvent(processed, age) ==
  [NewEvent("u1", TRUE) EXCEPT !.processed = processed, !.created_at = now - age]

\* An event whose group failed once (retry scheduled a day after it was
\* recorded) and one that failed RETRY_MAX_ATTEMPTS times (dead letter).
StoredRetry(age) ==
  [StoredEvent(FALSE, age) EXCEPT !.attempt_count = 1, !.last_error = "extract",
                                  !.next_retry_at = now - age + RETRY_BASE_DELAY_SECONDS]

StoredDeadLetter(age) ==
  [StoredEvent(FALSE, age) EXCEPT !.attempt_count = RETRY_MAX_ATTEMPTS,
                                  !.last_error = "extract", !.dead_letter = TRUE]

SweepEvents ==
  LET rows == {StoredEvent(p, a) : p \in BOOLEAN, a \in {Day, 10 * Day}}
                \cup {StoredRetry(10 * Day), StoredDeadLetter(10 * Day)}
      seqs == UNION {[1..n -> rows] : n \in 0..MaxSweepEvents}
  IN  {s \in seqs : \A j, k \in DOMAIN s : j < k => s[j].created_at <= s[k].created_at}

InitSweep ==
  /\ now = SweepDay * Day
  /\ items \in SUBSET SweepItems
  /\ events \in SweepEvents
  /\ evidence \in SUBSET {<<i.memory_id, 1>> : i \in SweepItems}
  /\ evidence # {} => events # << >>
  /\ relations = {}
  /\ next_id = [k \in Scopes \X FactKeys |-> 2]
  /\ session_writes = [sc \in Scopes |-> 0]
  /\ hourly_writes = << >>
  /\ wk = [w \in Workers |-> IdleWorker]
  /\ extraction_task = NoTask
  /\ extraction_pending = FALSE
  /\ cons = IdleConsolidator
  /\ faults = 0
  /\ hist = [k \in Scopes \X FactKeys |-> [n |-> 0, clean |-> TRUE]]
  /\ policy = PolicyAuto
  /\ rd = NoRead
  /\ mt = NoSweep

NextSweep ==
  \/ \E fails \in SUBSET SubTasks : run_maintenance_sweep(fails)
  \/ now < MaxSweepDay * Day /\ Elapse

SpecSweep == InitSweep /\ [][NextSweep]_vars

\* SpecRate: one sequential caller on the events of two scopes under
\* policies whose rate limits are one write, with session ends, a
\* clock that advances by half the window of the hourly limit, and one
\* fault of the store.
MaxRateEvents == 2

MaxRateSeconds == 3600

HOUR_SECONDS == 3600

\* The clock advances by half an hour.
HalfHour ==
  /\ now < MaxRateSeconds
  /\ now' = now + HOUR_SECONDS \div 2
  /\ UNCHANGED <<policy, rd, mt, events, items, evidence, relations, next_id,
                 session_writes, hourly_writes, wk, extraction_task,
                 extraction_pending, cons, faults, hist>>

RatePolicies ==
  {[PolicyAuto EXCEPT !.max_writes_per_session = 1],
   [PolicyAuto EXCEPT !.max_writes_per_hour = 1],
   PolicySmall}

InitRate == InitStore /\ policy \in RatePolicies

NextRate ==
  \/ /\ Len(events) < MaxRateEvents
     /\ \E sc \in Scopes : RecordEvent(sc, TRUE)
  \/ run_extraction_cycle(1)
  \/ CycleStep(1, Cities, 1)
  \/ CandidateStep(1)
  \/ CandidateRaises(1)
  \/ EvidenceNewFails(1)
  \/ on_session_end
  \/ HalfHour

SpecRate == InitRate /\ [][NextRate]_vars

\* SpecTypes: one sequential caller on the events of one scope; the
\* extraction names a city as a profile or, under the fact_key of the
\* Beijing profile, as an episode, so that a candidate meets an item of its
\* fact_key stored under another type.
MaxTypeEvents == 3

CandMove ==
  [type |-> "episode", fact |-> "moved to Beijing",
   fact_key |-> "current_city_beijing", subject_key |-> "current_city",
   confidence |-> 800, importance |-> 600]

TypedCities == {CandBeijing, CandShanghai, CandMove}

InitTypes == InitStore /\ policy \in {PolicyTwo, PolicySmall}

NextTypes ==
  \/ /\ Len(events) < MaxTypeEvents
     /\ RecordEvent("u1", TRUE)
  \/ run_extraction_cycle(1)
  \/ CycleStep(1, TypedCities, 1)
  \/ CandidateStep(1)

SpecTypes == InitTypes /\ [][NextTypes]_vars

\* SpecOverlap: a cycle called directly and the background task of
\* schedule_extraction run concurrently on the one event of a scope, whose
\* extraction may fail every time; the clock moves to the next retry.
MaxOverlapEvents == 1

InitOverlap == InitStore /\ policy \in {PolicyAuto, PolicySmall}

NextOverlap ==
  \/ /\ Len(events) < MaxOverlapEvents
     /\ RecordEvent("u1", TRUE)
  \/ Tick
  \/ run_extraction_cycle(1)
  \/ schedule_extraction
  \/ \E t \in Tasks : TaskStart(t)
  \/ \E t \in Tasks : Fetch(t)
  \/ \E w \in {1} \cup Tasks : CycleStep(w, Cities, 1)
  \/ \E w \in {1} \cup Tasks : CandidateStep(w)

SpecOverlap == InitOverlap /\ [][NextOverlap]_vars

\* SpecProgress: SpecRetry where cycles keep being run and time advances:
\* the caller starts a cycle whenever an event can be fetched, each call of
\* the cycle returns or raises, and the clock reaches every scheduled retry.
WriterStep(w) ==
  \/ run_extraction_cycle(w)
  \/ CycleStep(w, Cities, MaxCands)
  \/ GroupNoMessages(w)
  \/ CandidateStep(w)

SpecProgress == SpecRetry /\ WF_vars(WriterStep(1)) /\ WF_vars(Tick)

\* SpecPromote: one sequential caller on the events of one scope under an
\* evidence gate of two (also on a scope of one item), where the extraction
\* names the cities as profiles and Beijing also as an episode.
MaxPromoteEvents == 2

PromotePolicies == {PolicyGate, [PolicyGate EXCEPT !.max_items_per_scope = 1]}

InitPromote == InitStore /\ policy \in PromotePolicies

NextPromote ==
  \/ /\ Len(events) < MaxPromoteEvents
     /\ RecordEvent("u1", TRUE)
  \/ run_extraction_cycle(1)
  \/ CycleStep(1, TypedCities, MaxCands)
  \/ CandidateStep(1)

SpecPromote == InitPromote /\ [][NextPromote]_vars

\* SpecStatus: one sequential caller on a store that holds the Beijing item,
\* alone or with the Shanghai item, each in any status an item can have (the
\* dashboard disables, the consolidator consolidates), under an automatic
\* policy, an evidence gate and a scope of one item.
MaxStatusEvents == 2

ITEM_STATUSES == {"active", "shadow", "disabled", "expired", "consolidated", "superseded"}

StatusItems ==
  LET rows(c) == {[StoredItem(c, 0) EXCEPT !.status = s] : s \in ITEM_STATUSES}
  IN  {{b, s} : b \in rows(CandBeijing), s \in rows(CandShanghai)}
        \cup {{b} : b \in rows(CandBeijing)}

InitStatus ==
  /\ now = 0
  /\ items \in StatusItems
  /\ relations = {}
  /\ events = << >>
  /\ evidence = {}
  /\ next_id = [k \in Scopes \X FactKeys |-> 2]
  /\ session_writes = [sc \in Scopes |-> 0]
  /\ hourly_writes = << >>
  /\ wk = [w \in Workers |-> IdleWorker]
  /\ extraction_task = NoTask
  /\ extraction_pending = FALSE
  /\ cons = IdleConsolidator
  /\ faults = 0
  /\ hist = [k \in Scopes \X FactKeys |-> [n |-> 0, clean |-> TRUE]]
  /\ policy \in {PolicyAuto, PolicyGate, PolicySmall}
  /\ rd = NoRead
  /\ mt = NoSweep

NextStatus ==
  \/ /\ Len(events) < MaxStatusEvents
     /\ RecordEvent("u1", TRUE)
  \/ run_extraction_cycle(1)
  \/ CycleStep(1, Cities, 1)
  \/ CandidateStep(1)

SpecStatus == InitStatus /\ [][NextStatus]_vars

\* ---------------------------------------------------------------- claims
\* C1: in every reachable state, under any interleaving of the candidate
\* pipelines of overlapping cycles and of a consolidation run on the same
\* scope, no two items share (scope, fact_key).
C1_UniqueFactKey ==
  \A i, j \in items : (i.scope = j.scope /\ i.fact_key = j.fact_key) => i = j

\* A caller and the consolidator are both about to insert the same key.
C1_Witness ==
  \E c \in Callers :
    /\ wk[c].pc = "insert"
    /\ cons.pc = "insert"
    /\ cons.new_key = wk[c].cand.fact_key

\* C8: at most one task created by schedule_extraction is alive at any time,
\* so no event is in the batches of two background cycles.
C8_SingleFlight ==
  /\ Cardinality({t \in Tasks : wk[t].pc # "idle"}) <= 1
  /\ \A t, u \in Tasks :
       (t # u /\ Running(t) /\ Running(u)) =>
         Range(CurrentGroup(t)) \cap Range(CurrentGroup(u)) = {}

\* schedule_extraction has been called while the task is in a candidate.
C8_Witness ==
  \E t \in Tasks : wk[t].pc \in CandidatePcs /\ extraction_pending

\* The positions of a cycle after the fetch of its batch.
InCycle(t) == wk[t].pc \in CandidatePcs \cup {"group", "endgroup"}

\* The events of the batch of the cycle that are still to be processed.
Batch(t) == UNION {Range(wk[t].groups[g]) : g \in DOMAIN wk[t].groups}

\* C9: a schedule_extraction call during a cycle in flight is not dropped:
\* the flag it sets makes the same task run one more cycle when the cycle in
\* flight ends, however it ends, and (unless a fetch of the store raises) a
\* cycle fetches the events recorded before the call that still wait.
C9_PendingRunsAgain ==
  /\ \A t \in Tasks :
       (extraction_pending /\ InCycle(t)) ~> (wk[t].pc = "fetch")
  /\ \A t \in Tasks : \A e \in 1..MaxEvents : \A f \in 0..MaxFaults :
       (extraction_pending /\ InCycle(t) /\ e \in DOMAIN events /\ faults = f)
         ~> \/ wk[t].pc = "group" /\ e \in Batch(t)
            \/ e \in DOMAIN events /\ ~Eligible(events[e], now)
            \/ faults > f
  /\ [][\A t \in Tasks :
          (extraction_pending /\ wk[t].pc \notin {"idle", "start"}
             /\ wk'[t].pc \in {"idle", "fetch"} /\ wk'[t] # wk[t])
          => (wk'[t].pc = "fetch" /\ ~extraction_pending')]_vars

\* The flag is set while the cycle in flight is at the end of a group and an
\* event recorded since its fetch waits.
C9_Witness ==
  \E t \in Tasks :
    /\ extraction_pending
    /\ wk[t].pc = "endgroup"
    /\ \E e \in DOMAIN events : Eligible(events[e], now) /\ e \notin Batch(t)

\* The cycle is in a candidate of the key (past its lookup).
InCandidate(w, key) == wk[w].pc \in CandidatePcs \ {"lookup"} /\ KeyOf(w) = key

ItemsOfKey(key) == {i \in items : i.scope = key[1] /\ i.fact_key = key[2]}

\* C2: a fact_key submitted n times in a scope, each time with one distinct
\* event not yet linked, has exactly one item, whose evidence_count is n.
C2_MergeNotDuplicate ==
  \A key \in DOMAIN hist :
    (hist[key].clean /\ hist[key].n >= 1 /\ ~InCandidate(1, key)) =>
      /\ Cardinality(ItemsOfKey(key)) = 1
      /\ \A i \in ItemsOfKey(key) : i.evidence_count = hist[key].n

\* The key was submitted twice and its second submission is through.
C2_Witness ==
  \E key \in DOMAIN hist :
    /\ hist[key].clean
    /\ hist[key].n = 2
    /\ ~InCandidate(1, key)
    /\ \E i \in ItemsOfKey(key) : i.evidence_count = 2

\* The cycle is in the merge path of a candidate all of whose evidence
\* events are linked to the item already.
Relinked(w) ==
  /\ wk[w].pc \in {"linked", "update", "evidence_m", "post_m"}
  /\ \A e \in Range(wk[w].eids) : <<wk[w].existing.memory_id, e>> \in evidence

ItemFacts == {<<i.memory_id, i.evidence_count, i.confidence>> : i \in items}

\* C3: processing an event again whose evidence is linked to the item already
\* leaves the evidence_count and the confidence of every item as they were
\* and creates no item.
C3_IdempotentReprocessing ==
  [][(\E w \in Workers : Relinked(w)) => ItemFacts' = ItemFacts]_vars

\* A retried event is processed again: its candidate is past update_item and
\* has no evidence to add.
C3_Witness ==
  \E w \in Workers :
    /\ Relinked(w)
    /\ wk[w].pc = "evidence_m"
    /\ wk[w].new_ids = << >>
    /\ \A e \in Range(wk[w].eids) : events[e].attempt_count >= 1

\* The step is the end of the candidates of the group of cycle w.
EndsGroup(w) == wk[w].pc = "endgroup" /\ wk'[w] # wk[w]

\* The step schedules a retry for event e and leaves it unprocessed.
RetryScheduled(e) ==
  /\ ~events'[e].processed
  /\ events'[e].attempt_count = events[e].attempt_count + 1
  /\ events'[e].dead_letter \/ events'[e].next_retry_at > now

\* C4: when a candidate of a group raised, the end of the group marks none
\* of its events processed and schedules a retry for each of them.
C4_GroupAllOrNothing ==
  [][\A w \in Workers :
       (EndsGroup(w) /\ wk[w].had_errors) =>
         \A e \in Range(CurrentGroup(w)) :
           ~events[e].processed /\ RetryScheduled(e)]_vars

\* Both events of a group wait for the retry of a failed pipeline, and a
\* candidate of the group was written with its evidence.
C4_Witness ==
  \E e, f \in DOMAIN events :
    /\ e # f
    /\ events[e].scope = events[f].scope
    /\ events[e].last_error = "pipeline" /\ ~events[e].processed
    /\ events[f].last_error = "pipeline" /\ ~events[f].processed
    /\ \E i \in items : <<i.memory_id, e>> \in evidence

\* The step is the failure of the extraction of the group of cycle w.
ExtractionFails(w) ==
  /\ wk[w].pc = "group"
  /\ \E e \in Range(CurrentGroup(w)) :
       /\ events'[e].last_error = "extract"
       /\ events'[e].attempt_count # events[e].attempt_count

\* C5: when the extraction of a group raises, the events of the group stay
\* unprocessed with a retry scheduled, no other event changes, nothing is
\* written to the store, and the cycle goes on with the next group.
C5_ExtractionFailure ==
  [][\A w \in Workers :
       ExtractionFails(w) =>
         /\ \A e \in Range(CurrentGroup(w)) : RetryScheduled(e)
         /\ \A e \in DOMAIN events \ Range(CurrentGroup(w)) : events'[e] = events[e]
         /\ items' = items /\ evidence' = evidence /\ relations' = relations
         /\ IF Len(wk[w].groups) > 1
            THEN wk'[w].pc = "group" /\ wk'[w].groups = Tail(wk[w].groups)
            ELSE wk'[w].pc \in {"idle", "fetch"}]_vars

\* The cycle is at a group of another scope than an event whose extraction
\* failed.
C5_Witness ==
  \E w \in Workers : \E e \in DOMAIN events :
    /\ wk[w].pc = "group"
    /\ events[e].last_error = "extract"
    /\ events[e].scope # ScopeOf(w)

\* C6: when a group ends without an error (its extraction may have returned
\* no candidates, or none of its events has text), each of its events is
\* marked processed with next_retry_at and last_error cleared, and no retry
\* is scheduled: its attempt_count and dead_letter stay.
C6_GroupCompletes ==
  [][\A w \in Workers :
       (\/ EndsGroup(w) /\ ~wk[w].had_errors
        \/ wk[w].pc = "group" /\ ~HasMessages(w) /\ wk'[w] # wk[w]) =>
         \A e \in Range(CurrentGroup(w)) :
           /\ events'[e].processed
           /\ events'[e].next_retry_at = NoTime
           /\ events'[e].last_error = ""
           /\ events'[e].attempt_count = events[e].attempt_count
           /\ events'[e].dead_letter = events[e].dead_letter]_vars

\* An event that had failed is processed, its retry state cleared.
C6_Witness ==
  \E e \in DOMAIN events :
    /\ events[e].processed
    /\ events[e].attempt_count >= 1
    /\ events[e].next_retry_at = NoTime
    /\ events[e].last_error = ""

\* The instants the fetch is asked at: now and any later one.
LaterTimes == {now, now + RETRY_BASE_DELAY_SECONDS, now + RETRY_MAX_DELAY_SECONDS,
               now + 1000 * RETRY_MAX_DELAY_SECONDS}

\* C7: an event is a dead letter from its 5th failed attempt on, with
\* next_retry_at cleared; a dead letter is in no batch and is returned by no
\* fetch at any time, and its row never changes again.
C7_DeadLetter ==
  /\ [](\A e \in DOMAIN events :
          /\ events[e].attempt_count <= RETRY_MAX_ATTEMPTS
          /\ events[e].dead_letter <=> events[e].attempt_count = RETRY_MAX_ATTEMPTS
          /\ events[e].dead_letter =>
               /\ events[e].next_retry_at = NoTime
               /\ \A t \in LaterTimes :
                    e \notin Range(get_unprocessed_events(events, BatchSize, t))
               /\ \A w \in Workers : e \notin Batch(w))
  /\ [][\A e \in DOMAIN events :
          events[e].dead_letter => events'[e] = events[e]]_vars

\* An event is a dead letter and the clock is past its last retry.
C7_Witness ==
  \E e \in DOMAIN events :
    /\ events[e].dead_letter
    /\ events[e].attempt_count = RETRY_MAX_ATTEMPTS
    /\ now > events[e].created_at

\* The step is the supersession step of an item written active by cycle w.
WritesActive(w) ==
  /\ \/ wk[w].pc = "post_n" /\ wk[w].item_status = "active"
     \/ wk[w].pc = "post_m" /\ wk[w].upd.status = "active"
  /\ wk'[w] # wk[w]
  /\ wk'[w].ret # "raised"
  /\ policy.enable_temporal_supersede
  /\ wk[w].cand.type \in policy.temporal_conflict_types

WrittenId(w) ==
  IF wk[w].pc = "post_n" THEN wk[w].item_id ELSE wk[w].existing.memory_id

WrittenSubject(w) ==
  IF wk[w].pc = "post_n" THEN wk[w].cand.subject_key ELSE wk[w].upd.subject_key

\* The items of the subject of the item written by cycle w.
OfSubject(its, w) ==
  {i \in its : /\ i.scope = ScopeOf(w)
               /\ i.type = wk[w].cand.type
               /\ i.subject_key = WrittenSubject(w)}

\* C10: when an item B is written active while an active item A of its
\* scope, type and subject_key with another fact_key exists, B is active
\* afterwards, A is superseded with invalid_at set and superseded_by B's
\* memory_id, and the subject has one active and one superseded item.
C10_TemporalSupersession ==
  [][\A w \in Workers :
       (/\ WritesActive(w)
        /\ WrittenSubject(w) # ""
        /\ \E a \in OfSubject(items, w) :
             a.status = "active" /\ a.fact_key # wk[w].cand.fact_key) =>
         /\ \A a \in OfSubject(items, w) :
              (a.status = "active" /\ a.fact_key # wk[w].cand.fact_key) =>
                \E n \in items' :
                  /\ n.memory_id = a.memory_id
                  /\ n.status = "superseded"
                  /\ n.invalid_at = now
                  /\ n.superseded_by = WrittenId(w)
         /\ \E b \in items' : b.memory_id = WrittenId(w) /\ b.status = "active"
         /\ Cardinality({i \in OfSubject(items', w) : i.status = "active"}) = 1
         /\ Cardinality({i \in OfSubject(items', w) : i.status = "superseded"}) = 1]_vars

\* An item is superseded by an active item of its subject.
C10_Witness ==
  \E a, b \in items :
    /\ a.status = "superseded"
    /\ a.invalid_at # NoTime
    /\ a.superseded_by = b.memory_id
    /\ b.status = "active"
    /\ b.subject_key = a.subject_key
    /\ b.fact_key # a.fact_key

SameSignature(r, n) ==
  /\ r.scope = n.scope
  /\ r.subject_key = n.subject_key
  /\ r.predicate = n.predicate

C12_InvalidImpliesSuperseded ==
  \A i \in items : i.invalid_at # NoTime => i.status = "superseded"

\* The step is one of cycle w.
Moves(w) == wk'[w] # wk[w]

\* The active and shadow items of a scope, and the priority of one.
Residents(its, scope) ==
  {i \in its : i.scope = scope /\ i.status \in {"active", "shadow"}}

ItemScore(i) == compute_priority_score(i.importance, i.confidence)

NewScore(w) ==
  compute_priority_score(wk[w].cand.importance, wk[w].cand.confidence)

LowestResidents(its, scope) ==
  {v \in Residents(its, scope) :
     \A o \in Residents(its, scope) : ItemScore(v) <= ItemScore(o)}

\* C13: at capacity with eviction enabled, a candidate whose priority is
\* strictly higher than that of the lowest-priority resident replaces it:
\* that resident is chosen, it alone changes and becomes expired, and the
\* new item is then inserted next to the unchanged other items.
C13_EvictionReplaces ==
  [][\A w \in Workers :
       /\ (/\ wk[w].pc = "victim" /\ Moves(w)
           /\ \E v \in LowestResidents(items, ScopeOf(w)) :
                NewScore(w) > ItemScore(v)) =>
            /\ wk'[w].pc = "evict"
            /\ \E v \in LowestResidents(items, ScopeOf(w)) :
                 wk'[w].victim = v.memory_id
       /\ (wk[w].pc = "evict" /\ Moves(w)) =>
            /\ items' = {IF i.memory_id = wk[w].victim
                         THEN [i EXCEPT !.status = "expired", !.updated_at = now]
                         ELSE i : i \in items}
            /\ wk'[w].pc = "insert"
       /\ (wk[w].pc = "insert" /\ wk[w].victim # NoId /\ Moves(w)) =>
            /\ items \subseteq items'
            /\ \E i \in items' \ items :
                 /\ i.fact_key = wk[w].cand.fact_key
                 /\ i.status \in {"active", "shadow"}]_vars

\* C14: at capacity with eviction enabled, a candidate whose priority is
\* lower than or equal to that of the lowest-priority resident is rejected:
\* _process_candidate returns false and the store and the write counters
\* are unchanged.
C14_EvictionRejects ==
  [][\A w \in Workers :
       (/\ wk[w].pc = "victim" /\ Moves(w)
        /\ \E v \in LowestResidents(items, ScopeOf(w)) :
             NewScore(w) <= ItemScore(v)) =>
         /\ wk'[w].ret = "false"
         /\ wk'[w].pc \in {"lookup", "endgroup"}
         /\ items' = items
         /\ evidence' = evidence
         /\ relations' = relations
         /\ session_writes' = session_writes
         /\ hourly_writes' = hourly_writes]_vars

\* The tea candidate, whose priority ties with the resident Beijing item's,
\* was rejected: no item of its key was ever inserted.
C14_Witness ==
  /\ policy = PolicySmall
  /\ wk[1].ret = "false"
  /\ ~hist[<<"u1", "likes_tea">>].clean
  /\ next_id[<<"u1", "likes_tea">>] = 1
  /\ next_id[<<"u1", "current_city_shanghai">>] = 1
  /\ \E i \in items : /\ i.fact_key = "current_city_beijing"
                      /\ i.status = "active"
                      /\ ItemScore(i) = compute_priority_score(CandTie.importance,
                                                               CandTie.confidence)

\* C15: in sequential cycles under a fixed policy the number of active and
\* shadow items of a scope never exceeds max_items_per_scope, and with
\* eviction disabled a candidate with a new fact_key that finds the scope at
\* the limit is rejected with the store unchanged.
C15_CapacityBound ==
  /\ [](\A sc \in Scopes :
          Cardinality(Residents(items, sc)) <= policy.max_items_per_scope)
  /\ [][\A w \in Workers :
          (/\ wk[w].pc = "count" /\ Moves(w)
           /\ ~policy.eviction_enabled
           /\ Cardinality(Residents(items, ScopeOf(w))) >= policy.max_items_per_scope) =>
            /\ wk'[w].ret = "false"
            /\ items' = items
            /\ evidence' = evidence
            /\ relations' = relations]_vars

\* With eviction disabled the scope is at its limit and a candidate with a
\* fact_key that was never stored has been rejected.
C15_Witness ==
  /\ policy = PolicyNoEvict
  /\ Cardinality(Residents(items, "u1")) = policy.max_items_per_scope
  /\ wk[1].ret = "false"
  /\ \E k \in FactKeys : ~hist[<<"u1", k>>].clean /\ next_id[<<"u1", k>>] = 1

\* C16: under any interleaving of the cycles the number of active and shadow
\* items of a scope never exceeds max_items_per_scope.
C16_CapacityBoundConcurrent ==
  \A sc \in Scopes :
    Cardinality(Residents(items, sc)) <= policy.max_items_per_scope

\* C17: shadow invisibility.  retrieve_memory_context without as_of returns
\* lines of active items only; for a scope whose only items are shadow it
\* returns the empty string; and an item whose status is active, the
\* promoted ones included, is among the lines it returns.
ShadowOnly(sc) ==
  /\ \E i \in items : i.scope = sc
  /\ \A i \in items : i.scope = sc => i.status = "shadow"

Retrievable(i, rp) ==
  /\ i.status = "active"
  /\ i.confidence >= rp.min_confidence
  /\ i.valid_at = NoTime \/ i.valid_at <= now
  /\ i.invalid_at = NoTime \/ i.invalid_at > now

C17_ShadowInvisible ==
  \A sc \in Scopes, rp \in ReadPolicies :
    LET r == retrieve_memory_context(items, relations, sc, rp, NoTime)
    IN  /\ \A k \in DOMAIN r.selected :
             r.selected[k] \in items /\ r.selected[k].status = "active"
        /\ ShadowOnly(sc) => r.text_len = 0
        /\ \A i \in items :
             i.scope = sc /\ Retrievable(i, rp) => i \in Range(r.selected)

\* A read returned the line of an item that was created shadow and approved.
C17_Witness ==
  /\ policy = PolicyShadow
  /\ rd.called
  /\ \E k \in DOMAIN rd.selected :
       rd.selected[k] \in items /\ rd.selected[k].status = "active"

\* C18: the evidence gate.  Under a write policy with min_evidence_count =
\* k > 1 an item is created shadow whatever the mode, no item is active with
\* an evidence_count below k, and the merge that brings a shadow item's
\* evidence_count to k or more writes the status the policy resolves to.
EvidenceGate == Max(1, policy.min_evidence_count)

C18_EvidenceGate ==
  /\ [](\A i \in items : i.status = "active" => i.evidence_count >= EvidenceGate)
  /\ [][/\ \A n \in items' :
             (\A i \in items : i.memory_id # n.memory_id) => n.status = "shadow"
        /\ \A i \in items : \A n \in items' :
             (/\ n.memory_id = i.memory_id
              /\ i.status = "shadow"
              /\ i.evidence_count < EvidenceGate
              /\ n.evidence_count >= EvidenceGate)
             => n.status = resolve_status_for_policy(i.type, policy)
        /\ \A i \in items : \A n \in items' :
             (/\ n.memory_id = i.memory_id
              /\ i.status = "shadow"
              /\ n.evidence_count < EvidenceGate)
             => n.status \in {"shadow", "expired"}]_vars

\* Under a gate of 3 in mode auto a merge has promoted an item.
C18_Witness ==
  /\ policy.mode = "auto"
  /\ policy.min_evidence_count = 3
  /\ \E i \in items : i.status = "active" /\ i.evidence_count >= 3

\* C19: budget enforcement.  The block retrieve_memory_context returns has
\* an estimated token cost, _estimate_tokens of the returned text with its
\* header and footer, of at most max_tokens, and at most max_items item
\* lines.
C19_BudgetEnforced ==
  (rd.called /\ rd.text_len > 0)
  => /\ estimate_tokens(rd.text_len) <= rd.read_policy.max_tokens
     /\ Len(rd.selected) <= rd.read_policy.max_items

\* C20: budget selection is a prefix.  The items of the returned block are
\* the first ones of the ranked, diversity-filtered list: none is selected
\* while an item ranked above it in that list was dropped.
RankedRows(sc, rp) ==
  LET diversified == diversified_items(items, relations, sc, rp, NoTime)
  IN  [k \in DOMAIN diversified |-> diversified[k].row]

C20_SelectionIsPrefix ==
  rd.called
  => rd.selected = Take(RankedRows(rd.scope, rd.read_policy), Len(rd.selected))

\* C21: historical reads.  After fact A was superseded by fact B, a call of
\* retrieve_memory_context with as_of at an instant from A's valid_at to
\* before A's invalid_at, and before B became valid, returns A and not B; a
\* call without as_of returns B and not A.
Returned(r, i) == \E k \in DOMAIN r.selected : r.selected[k].memory_id = i.memory_id

Reads == rd' # rd /\ rd'.called

HistoricalRead(r, A, B) ==
  /\ r.as_of # NoTime
  /\ A.valid_at <= r.as_of
  /\ r.as_of < A.invalid_at
  /\ r.as_of < B.valid_at

CurrentRead(r, B) == r.as_of = NoTime /\ B.status = "active"

SupersededBy(A, B) ==
  /\ A.status = "superseded"
  /\ A.superseded_by = B.memory_id
  /\ A.scope = B.scope

C21_HistoricalReads ==
  [][Reads =>
       \A A \in items : \A B \in items :
         (SupersededBy(A, B) /\ A.scope = rd'.scope)
         => /\ HistoricalRead(rd', A, B) => Returned(rd', A) /\ ~Returned(rd', B)
            /\ CurrentRead(rd', B) => Returned(rd', B) /\ ~Returned(rd', A)]_vars

\* C22: evidence links are unique and pre-filtered.  In every reachable
\* state there is at most one evidence link per (memory_id, event_id), and
\* every insert_evidence the writer makes is for a pair that is not linked
\* yet: the links are kept unique by leaving out the linked event ids, not by
\* the uniqueness error of the table.
LinksOf(memory_id, event_id) ==
  {l \in evidence : l[1] = memory_id /\ l[2] = event_id}

InsertsLinked(w) ==
  \/ /\ wk[w].pc = "evidence_m"
     /\ \E e \in Range(wk[w].new_ids) : <<wk[w].existing.memory_id, e>> \in evidence
  \/ /\ wk[w].pc = "evidence_n"
     /\ \E e \in Range(wk[w].eids) : <<wk[w].item_id, e>> \in evidence

C22_UniqueEvidence ==
  /\ [](\A l \in evidence : Cardinality(LinksOf(l[1], l[2])) <= 1)
  /\ [][\A w \in Workers : Moves(w) => ~InsertsLinked(w)]_vars

\* C23: a duplicate fact_key insert race is folded into the merge path.
\* When a writer reaches insert_item and another writer has inserted the
\* same (scope, fact_key) since the writer's existence check, the candidate
\* does not end with an error and its group is not marked as failed (so it
\* does not go into retry or dead-letter): the candidate is handled as a
\* merge into the item that is there.
DuplicateInsert(w) ==
  /\ wk[w].pc = "insert"
  /\ ItemKeyTaken(items, ScopeOf(w), wk[w].cand.fact_key)
  /\ Moves(w)
  /\ faults' = faults

C23_DuplicateInsertMerged ==
  [][\A w \in Workers : DuplicateInsert(w) =>
        /\ wk'[w].ret # "raised"
        /\ wk'[w].had_errors = wk[w].had_errors]_vars

\* C24: a cancelled cycle leaves its group unprocessed.  When a cycle is
\* cancelled during the extraction call of a group or between (or within)
\* the candidates of a group, no event of that group is processed after the
\* cancellation: the cancelled cycle has marked none of them.
MidGroup(w) == wk[w].pc \in ({"group"} \cup CandidatePcs)

Cancelled(w) == MidGroup(w) /\ wk'[w].pc = "idle" /\ wk'[w].ret = "cancelled"

C24_CancelLeavesUnprocessed ==
  [][\A w \in Workers : Cancelled(w) =>
        \A e \in Range(CurrentGroup(w)) : ~events'[e].processed]_vars

\* A cycle was cancelled after a candidate of its group had been written:
\* two events are linked to an item and neither is processed or retried.
C24_Witness ==
  /\ wk[1].ret = "cancelled"
  /\ \E m \in items : \A e \in DOMAIN events :
       /\ <<m.memory_id, e>> \in evidence
       /\ ~events[e].processed
       /\ events[e].attempt_count = 0
  /\ Len(events) = MaxCancelEvents

\* C25: cancellation counts as a group failure.  When a cycle is cancelled
\* in a group, each event of the group gets the retry bookkeeping of a
\* failed extraction: attempt_count grows by one and next_retry_at is set,
\* or the event is dead-lettered.
C25_CancelSchedulesRetry ==
  [][\A w \in Workers : Cancelled(w) =>
        \A e \in Range(CurrentGroup(w)) :
          /\ events'[e].attempt_count = events[e].attempt_count + 1
          /\ events'[e].next_retry_at # NoTime \/ events'[e].dead_letter]_vars

\* C26: the backoff schedule.  Whenever an event's attempt_count changes it
\* grows by exactly one; when the new count k is below max_attempts = 5 the
\* event's next_retry_at is set to now + 30, 60, 120, 240 seconds for
\* k = 1, 2, 3, 4; and the delay of any attempt is min(max_delay,
\* base_delay * 2^(k-1)), never more than max_delay = 1800 seconds.
BackoffSeconds == <<30, 60, 120, 240>>

C26_BackoffSchedule ==
  /\ [][\A e \in DOMAIN events :
          events'[e].attempt_count # events[e].attempt_count =>
            LET k == events'[e].attempt_count
            IN  /\ k = events[e].attempt_count + 1
                /\ k < RETRY_MAX_ATTEMPTS =>
                     /\ events'[e].next_retry_at = now + BackoffSeconds[k]
                     /\ ~events'[e].dead_letter]_vars
  /\ [](\A k \in 1..MaxBackoffAttempts :
          LET delay == RetryDelay(k, RETRY_BASE_DELAY_SECONDS, RETRY_MAX_DELAY_SECONDS)
          IN  /\ delay <= RETRY_MAX_DELAY_SECONDS
              /\ delay = Min(RETRY_MAX_DELAY_SECONDS, RETRY_BASE_DELAY_SECONDS * Pow2(k - 1))
              /\ k < RETRY_MAX_ATTEMPTS => delay = BackoffSeconds[k])

\* The fourth failure of an event has just been scheduled, 240 s ahead.
C26_Witness ==
  \E e \in DOMAIN events :
    /\ events[e].attempt_count = 4
    /\ events[e].next_retry_at = now + 240
    /\ ~events[e].dead_letter

\* C27: fetch eligibility.  For every limit, get_unprocessed_events returns
\* at most limit events, none of them processed, dead-lettered or with a
\* next_retry_at in the future, each once, in the order of (next_retry_at if
\* set else created_at, created_at), and it leaves out an eligible event only
\* for the limit and only one that does not come before those it returns;
\* the batch a cycle works on is such a result, so an event scheduled for
\* retry is fetched again only once its next_retry_at has passed.
FetchKey(e) == <<IF e.next_retry_at # NoTime THEN e.next_retry_at ELSE e.created_at, e.created_at>>

KeyLeq(a, b) == a[1] < b[1] \/ (a[1] = b[1] /\ a[2] <= b[2])

Fetchable(e) ==
  ~e.processed /\ ~e.dead_letter /\ (e.next_retry_at = NoTime \/ e.next_retry_at <= now)

FetchResultOk(b, limit) ==
  /\ Len(b) <= limit
  /\ \A k \in DOMAIN b : b[k] \in DOMAIN events /\ Fetchable(events[b[k]])
  /\ \A j, k \in DOMAIN b : j < k =>
       b[j] # b[k] /\ KeyLeq(FetchKey(events[b[j]]), FetchKey(events[b[k]]))
  /\ \A e \in DOMAIN events : (Fetchable(events[e]) /\ e \notin Range(b)) =>
       /\ Len(b) = limit
       /\ \A k \in DOMAIN b : KeyLeq(FetchKey(events[b[k]]), FetchKey(events[e]))

Fetched(w) == wk[w].pc = "idle" /\ wk'[w].pc = "group"

C27_FetchEligibility ==
  /\ [](\A limit \in (1..MaxFetchEvents) \cup {BatchSize} :
          FetchResultOk(get_unprocessed_events(events, limit, now), limit))
  /\ [][\A w \in Workers : Fetched(w) =>
          \A g \in DOMAIN wk'[w].groups :
            FetchResultOk(wk'[w].groups[g], BatchSize)]_vars

\* A cycle has fetched a retried event after one recorded later: the retry
\* time of the first lies after the creation time of the second.
C27_Witness ==
  /\ Len(events) = 2
  /\ events[1].attempt_count > 0
  /\ wk[1].pc = "group"
  /\ wk[1].groups = <<<<2, 1>>>>

\* C28: merges are not blocked by limits.  When the scope is at
\* max_items_per_scope with eviction disabled, or the session or hourly
\* write counter is exhausted, a candidate whose fact_key exists in the scope
\* still takes the merge path; along the merge path no item is added and
\* none is evicted, and the update adds the newly linked events to the
\* existing item's evidence_count.
LimitsReached(sc) ==
  \/ /\ Cardinality({i \in items : i.scope = sc /\ i.status \in {"active", "shadow"}})
          >= policy.max_items_per_scope
     /\ ~policy.eviction_enabled
  \/ session_writes[sc] >= policy.max_writes_per_session
  \/ Len(SelectSeq(hourly_writes, LAMBDA t : t > now - 3600)) >= policy.max_writes_per_hour

KeyExists(w) ==
  \E i \in items : i.scope = ScopeOf(w) /\ i.fact_key = Head(wk[w].cands).fact_key

MergePcs == {"linked", "update", "evidence_m", "post_m"}

C28_MergeNotBlocked ==
  [][\A w \in Workers : (Moves(w) /\ faults' = faults) =>
        /\ (wk[w].pc = "lookup" /\ KeyExists(w) /\ LimitsReached(ScopeOf(w))) =>
             wk'[w].pc = "linked"
        /\ wk[w].pc \in MergePcs =>
             /\ {i.memory_id : i \in items'} = {i.memory_id : i \in items}
             /\ \A i \in items : \A j \in items' :
                  (i.memory_id = j.memory_id /\ j.status = "expired") =>
                    i.status = "expired"
        /\ (wk[w].pc = "update" /\ wk[w].new_ids # << >>) =>
             \E i \in items : \E j \in items' :
               /\ i.memory_id = wk[w].existing.memory_id
               /\ j.memory_id = i.memory_id
               /\ j.evidence_count = i.evidence_count + Len(wk[w].new_ids)
               /\ j.evidence_count > i.evidence_count]_vars

\* Under a policy all of whose limits the first write exhausted, a second
\* event was merged into the only item.
C28_Witness ==
  /\ policy = PolicyAllLimits
  /\ session_writes["u1"] = 1
  /\ Len(hourly_writes) = 1
  /\ \E i \in items : items = {i} /\ i.status = "active" /\ i.evidence_count = 2
  /\ \A e \in DOMAIN events : events[e].processed

\* C29: consolidation reduces the count.  When the merge of a cluster (two
\* or more active items of one type) whose merged fact_key meets no item
\* outside the cluster is completed, the items of the cluster are gone and
\* exactly one active item holds the merged key, with an evidence_count that
\* is the sum of the cluster's (at least 2); the scope has fewer active
\* items than the run read; and the run returns the number of items of the
\* clusters it merged.
ActiveIn(its, sc) == {i \in its : i.scope = sc /\ i.status = "active"}

ClusterMerged == cons.pc = "insert" /\ cons'.pc # "insert"

EvidenceOfCluster(cluster) ==
  LET counts == [k \in DOMAIN cluster |-> cluster[k].evidence_count]
  IN  IF Len(cluster) = 2 THEN counts[1] + counts[2]
      ELSE counts[1] + counts[2] + counts[3]

C29_ConsolidationReduces ==
  [][ClusterMerged =>
        LET cluster == Head(cons.clusters)
            merged == {i \in ActiveIn(items', cons.scope) : i.fact_key = cons.new_key}
        IN  /\ Len(cluster) \in 2..3
            /\ \A k \in DOMAIN cluster :
                 /\ cluster[k].type = cluster[1].type
                 /\ \A i \in items' : i.memory_id # cluster[k].memory_id
            /\ Cardinality(merged) = 1
            /\ \A m \in merged :
                 /\ m.evidence_count = EvidenceOfCluster(cluster)
                 /\ m.evidence_count >= 2
                 /\ m.type = cluster[1].type
            /\ Cardinality(ActiveIn(items', cons.scope)) < cons.n_rows
            /\ Cardinality(ActiveIn(items', cons.scope)) = cons.n_rows - Len(cluster) + 1
            /\ cons'.pc = "idle" => cons'.consolidated = Len(cluster)]_vars

\* A run has merged the two cities, one of them seen twice, into one item
\* under a key of its own and has returned 2.
C29_Witness ==
  /\ cons.pc = "idle"
  /\ cons.consolidated = 2
  /\ \E m \in items :
       /\ m.fact_key = "likes_tea"
       /\ m.type = "profile"
       /\ m.status = "active"
       /\ m.evidence_count = 3
  /\ \A i \in items : i.fact_key \notin {"current_city_beijing", "current_city_shanghai"}

\* C30: the maintenance sub-tasks are isolated.  A sweep in which any of the
\* TTL expiration, the cleanup of processed events and the pruning of orphan
\* evidence fails returns its result without raising; a sub-task that failed
\* counts zero and leaves its table as it was; each of the others still
\* runs: after it no active or shadow item is past its TTL, no processed
\* event older than the retention is left, no evidence link is without its
\* item, and its count is the number of rows it changed.
Swept == mt'.runs = mt.runs + 1

Stale(i) ==
  /\ i.status \in {"active", "shadow"}
  /\ i.ttl_days > 0
  /\ now - i.created_at >= i.ttl_days * Day

Cleanable(e) ==
  ~e.deleted /\ e.processed /\ now - e.created_at > EVENT_RETENTION_DAYS * Day

ItemIds(its) == {i.memory_id : i \in its}

C30_SweepIsolated ==
  [][Swept =>
       /\ ~mt'.raised
       /\ IF "expire_old_items" \in mt'.failed
          THEN items' = items /\ mt'.result.expired = 0
          ELSE /\ \A i \in items' : ~Stale(i)
               /\ mt'.result.expired = Cardinality(items' \ items)
               /\ ItemIds(items') = ItemIds(items)
       /\ IF "delete_processed_events" \in mt'.failed
          THEN events' = events /\ mt'.result.events_cleaned = 0
          ELSE /\ \A k \in DOMAIN events' : ~Cleanable(events'[k])
               /\ mt'.result.events_cleaned =
                    Cardinality({k \in DOMAIN events : events'[k] # events[k]})
       /\ IF "prune_orphan_evidence" \in mt'.failed
          THEN evidence' = evidence /\ mt'.result.evidence_pruned = 0
          ELSE /\ \A l \in evidence' : l[1] \in ItemIds(items')
               /\ evidence' \subseteq evidence
               /\ mt'.result.evidence_pruned = Cardinality(evidence \ evidence')]_vars

\* A sweep whose event cleanup failed has expired an item and pruned an
\* orphan link, and the old processed event is still there.
C30_Witness ==
  /\ mt.runs = 1
  /\ mt.failed = {"delete_processed_events"}
  /\ mt.result.expired = 1
  /\ mt.result.events_cleaned = 0
  /\ mt.result.evidence_pruned >= 1
  /\ \E k \in DOMAIN events : Cleanable(events[k])

\* C31: re-affirming a fact does not supersede it.  When the writer syncs
\* the relation of an active item and an active relation with the same
\* (scope, subject_key, predicate, object_text) exists, that relation stays
\* active, no relation row with the triple is added, and its confidence and
\* evidence_count become the maximum of the old and the new value (never
\* lower); and no step of a candidate supersedes an item of the candidate's
\* own fact_key.
Syncs(w) ==
  /\ Moves(w)
  /\ faults' = faults
  /\ \/ wk[w].pc = "post_m" /\ wk[w].upd.status = "active"
     \/ wk[w].pc = "post_n" /\ wk[w].item_status = "active"

SyncedRow(w) ==
  IF wk[w].pc = "post_m"
  THEN [subject_key |-> wk[w].upd.subject_key, object_text |-> wk[w].upd.fact,
        confidence |-> wk[w].upd.confidence,
        evidence_count |-> wk[w].upd.evidence_count]
  ELSE [subject_key |-> wk[w].cand.subject_key, object_text |-> wk[w].cand.fact,
        confidence |-> (wk[w].cand.confidence * 800) \div 1000,
        evidence_count |-> 1]

SameTriple(r, w) ==
  /\ r.scope = ScopeOf(w)
  /\ r.subject_key = SyncedRow(w).subject_key
  /\ r.predicate = RelationPredicate(wk[w].cand.type)
  /\ r.object_text = SyncedRow(w).object_text

Larger(a, b) == IF a >= b THEN a ELSE b

C31_ReaffirmKeepsActive ==
  [][\A w \in Workers :
       /\ Syncs(w) =>
            \A r \in relations : (r.status = "active" /\ SameTriple(r, w)) =>
              /\ \E q \in relations' :
                   /\ q.relation_id = r.relation_id
                   /\ q.status = "active"
                   /\ q.confidence = Larger(r.confidence, SyncedRow(w).confidence)
                   /\ q.evidence_count = Larger(r.evidence_count, SyncedRow(w).evidence_count)
                   /\ q.confidence >= r.confidence
                   /\ q.evidence_count >= r.evidence_count
              /\ {q.relation_id : q \in {x \in relations' : SameTriple(x, w)}}
                   = {q.relation_id : q \in {x \in relations : SameTriple(x, w)}}
       /\ (Moves(w) /\ wk[w].pc \in CandidatePcs \ {"lookup"}) =>
            \A i \in items : \A j \in items' :
              (/\ i.memory_id = j.memory_id
               /\ i.scope = ScopeOf(w)
               /\ i.fact_key = wk[w].cand.fact_key
               /\ j.status = "superseded") => i.status = "superseded"]_vars

\* A fact was observed again: its relation is active with the evidence
\* count of two that the second sync gave it, and it is the only row.
C31_Witness ==
  \E r \in relations :
    /\ r.status = "active"
    /\ r.evidence_count = 2
    /\ \A q \in relations : q.object_text = r.object_text => q = r

\* C32: rate limits.  Under a fixed policy a writer inserts a new item only
\* while the session counter of its scope is below max_writes_per_session
\* and fewer than max_writes_per_hour writes lie in the last 3600 seconds;
\* every insert is followed by one increment of both counters before the
\* next candidate, and the counters grow at no other step; on_session_end
\* sets every session counter to 0 and the hourly list only loses entries
\* older than 3600 seconds.  So the session counter never exceeds
\* max_writes_per_session and no window (t - 3600, t] holds more than
\* max_writes_per_hour inserts.  A candidate of a new fact_key that arrives
\* with an exhausted counter is rejected (False) and no item, evidence,
\* relation or session counter changes.
InsertedIn(lo, hi) == {i \in items : lo < i.created_at /\ i.created_at <= hi}

Exhausted(sc) ==
  \/ session_writes[sc] >= policy.max_writes_per_session
  \/ Len(prune_hourly_writes(hourly_writes)) >= policy.max_writes_per_hour

CountsInsert(w) ==
  /\ wk[w].pc = "evidence_n"
  /\ Moves(w)
  /\ \E i \in items : i.memory_id = wk[w].item_id

C32_RateLimits ==
  /\ [](\A sc \in Scopes : session_writes[sc] <= policy.max_writes_per_session)
  /\ [](\A i \in items :
          Cardinality(InsertedIn(i.created_at - HOUR_SECONDS, i.created_at))
            <= policy.max_writes_per_hour)
  /\ [][/\ \A w \in Workers :
             /\ (wk[w].pc = "insert" /\ items' # items) =>
                  /\ ~Exhausted(ScopeOf(w))
                  /\ wk'[w].pc = "evidence_n"
             /\ (wk[w].pc = "evidence_n" /\ Moves(w)) =>
                  /\ session_writes'[ScopeOf(w)] = session_writes[ScopeOf(w)] + 1
                  /\ hourly_writes' = Append(hourly_writes, now)
             /\ (/\ wk[w].pc = "lookup" /\ Moves(w) /\ faults' = faults
                 /\ ~KeyExists(w) /\ Exhausted(ScopeOf(w))) =>
                  /\ wk'[w].ret = "false"
                  /\ items' = items /\ evidence' = evidence
                  /\ relations' = relations
                  /\ session_writes' = session_writes
                  /\ hourly_writes' = prune_hourly_writes(hourly_writes)
        /\ (session_writes' # session_writes) =>
             \/ /\ session_writes' = [sc \in Scopes |-> 0]
                /\ items' = items /\ wk' = wk
             \/ \E w \in Workers :
                  /\ CountsInsert(w)
                  /\ session_writes' =
                       [session_writes EXCEPT ![ScopeOf(w)] = @ + 1]
        /\ (hourly_writes' # hourly_writes) =>
             \/ hourly_writes' = prune_hourly_writes(hourly_writes)
             \/ \E w \in Workers : CountsInsert(w)]_vars

\* Under a session limit of one, the second city of a scope was rejected
\* after the first was inserted and counted.
C32_Witness ==
  /\ policy.max_writes_per_session = 1
  /\ session_writes["u1"] = 1
  /\ Cardinality({i \in items : i.scope = "u1"}) = 1
  /\ wk[1].pc = "endgroup"
  /\ wk[1].ret = "false"

\* C33: maintenance never loses pending work.  No step removes a row of
\* events; a row is deleted only by a maintenance sweep, and only when it is
\* processed and was recorded more than EVENT_RETENTION_DAYS days before the
\* sweep; an event that is not processed (pending, with a retry scheduled,
\* or dead-lettered) is in the store after every step exactly as it was,
\* whatever its age.
Unprocessed(e) == ~e.deleted /\ ~e.processed

C33_PendingKept ==
  [][/\ DOMAIN events \subseteq DOMAIN events'
     /\ \A k \in DOMAIN events :
          /\ (~events[k].deleted /\ events'[k].deleted) =>
               /\ Swept
               /\ events[k].processed
               /\ now - events[k].created_at > EVENT_RETENTION_DAYS * Day
          /\ (Swept /\ Unprocessed(events[k])) => events'[k] = events[k]]_vars

\* A sweep has deleted the old processed event and kept the dead letter of
\* the same age.
C33_Witness ==
  /\ mt.runs >= 1
  /\ \E j, k \in DOMAIN events :
       /\ events[j].deleted
       /\ Unprocessed(events[k]) /\ events[k].dead_letter
       /\ events[k].created_at = events[j].created_at

\* C34: a superseded item names an active peer.  Whenever a step of the
\* write pipeline turns an item X superseded, its superseded_by names an
\* item Y other than X that is active after the step and has the scope, the
\* type and the subject_key of X, on the new-item path and on the merge path.
Supersedes(w, x) ==
  /\ Moves(w)
  /\ x.status # "superseded"
  /\ \E z \in items' : z.memory_id = x.memory_id /\ z.status = "superseded"

Peer(x, y) ==
  /\ y.memory_id # x.memory_id
  /\ y.status = "active"
  /\ y.scope = x.scope
  /\ y.type = x.type
  /\ y.subject_key = x.subject_key

C34_SupersededByPeer ==
  [][\A w \in Workers : \A x \in items : Supersedes(w, x) =>
        \E z \in items' : \E y \in items' :
          /\ z.memory_id = x.memory_id
          /\ y.memory_id = z.superseded_by
          /\ Peer(x, y)]_vars

\* The same on the new-item path alone, where the superseding item is the
\* one just inserted with the candidate's type.
C34_NewItemPeer ==
  [][\A w \in Workers : \A x \in items : (Supersedes(w, x) /\ wk[w].pc = "post_n") =>
        \E z \in items' : \E y \in items' :
          /\ z.memory_id = x.memory_id
          /\ y.memory_id = z.superseded_by
          /\ Peer(x, y)]_vars

\* C35: a rejected candidate has no side effect.  The step with which
\* _process_candidate returns False changes no item, no evidence link and no
\* relation and increments no rate-limit counter; with the steps of the call
\* before it (which lead to a False only when they wrote nothing) this says
\* that the call changed nothing, also when the rejection is the confidence
\* threshold met after an eviction.
ReturnsFalse(w) ==
  /\ Moves(w)
  /\ wk[w].pc \in CandidatePcs
  /\ wk'[w].cands = Tail(wk[w].cands)
  /\ wk'[w].ret = "false"

NoSideEffect ==
  /\ items' = items
  /\ evidence' = evidence
  /\ relations' = relations
  /\ session_writes' = session_writes
  /\ Len(hourly_writes') <= Len(hourly_writes)

C35_RejectedNoEffect ==
  [][\A w \in Workers : ReturnsFalse(w) => NoSideEffect]_vars

\* The same for every rejection but the one that follows the eviction.
C35_RejectedElsewhere ==
  [][\A w \in Workers : (ReturnsFalse(w) /\ wk[w].pc # "evict") => NoSideEffect]_vars

\* C36: an event is never both processed and dead-lettered.  In every state
\* no event has processed and dead_letter set together, also when a direct
\* cycle and a scheduled cycle hold the same event; and no step of a cycle
\* changes an event that is dead-lettered.
C36_ProcessedXorDeadLetter ==
  /\ [](\A k \in DOMAIN events : ~(events[k].processed /\ events[k].dead_letter))
  /\ [][\A k \in DOMAIN events : events[k].dead_letter => events'[k] = events[k]]_vars

\* C37: progress of the event lifecycle.  When cycles keep being run and
\* time advances, every recorded event is eventually processed or
\* dead-lettered, whatever fails on the way; and the attempt_count of no
\* event exceeds RETRY_MAX_ATTEMPTS.
Settled(k) == k \in DOMAIN events /\ (events[k].processed \/ events[k].dead_letter)

C37_EventsSettle ==
  /\ \A k \in 1..MaxRetryEvents : (k \in DOMAIN events) ~> Settled(k)
  /\ [](\A k \in DOMAIN events : events[k].attempt_count <= RETRY_MAX_ATTEMPTS)

\* An event was dead-lettered after RETRY_MAX_ATTEMPTS failed attempts.
C37_Witness ==
  \E k \in DOMAIN events :
    /\ events[k].dead_letter
    /\ ~events[k].processed
    /\ events[k].attempt_count = RETRY_MAX_ATTEMPTS

\* C38: one active item per subject.  With temporal supersession enabled,
\* between the calls of _process_candidate of sequential cycles no two
\* active items of a scope share a type of temporal_conflict_types and a
\* subject_key, also after a shadow item was promoted by the evidence gate.
BetweenCalls == \A w \in Workers : wk[w].pc \notin CandidatePcs \ {"lookup"}

ActiveOfSubject(its, scope, type, subject_key) ==
  {i \in its : /\ i.scope = scope /\ i.type = type
               /\ i.subject_key = subject_key /\ i.status = "active"}

C38_OneActivePerSubject ==
  (policy.enable_temporal_supersede /\ BetweenCalls) =>
    \A i \in items :
      i.type \in policy.temporal_conflict_types =>
        Cardinality(ActiveOfSubject(items, i.scope, i.type, i.subject_key)) <= 1

\* C39: the write pipeline never reactivates an item.  Every step of the
\* pipeline keeps every item and either keeps its status or changes it from
\* shadow to active, from active to superseded, or from active or shadow to
\* expired; so an item that is superseded, expired, consolidated or disabled
\* keeps its status, also when its fact_key is observed again and the
\* evidence is merged into it.
PipelineChanges ==
  {<<"shadow", "active">>, <<"active", "superseded">>,
   <<"active", "expired">>, <<"shadow", "expired">>}

C39_NoReactivation ==
  [][\A i \in items : \E j \in items' :
       /\ j.memory_id = i.memory_id
       /\ (j.status = i.status \/ <<i.status, j.status>> \in PipelineChanges)]_vars

\* A disabled item and a consolidated item took the evidence of a new event
\* and kept their status.
C39_Witness ==
  /\ \E i \in items : i.status = "disabled" /\ i.evidence_count = 2
  /\ \E i \in items : i.status = "consolidated" /\ i.evidence_count = 2

\* C40: consolidation does not lose the merged fact.  Whenever the merge of
\* a cluster returns True, the scope then holds an active item with the
\* merged fact under the merged fact_key: the item inserted for it, or the
\* item outside the cluster that held the key and was updated (whatever its
\* status was) while the cluster's items were marked consolidated.
MergeReturnsTrue == cons.pc \in {"mark", "insert"} /\ cons'.consolidated > cons.consolidated

HoldsMerged(i) ==
  i.scope = cons.scope /\ i.fact_key = cons.new_key /\ i.fact = "merged"

C40_MergedFactKept ==
  [][MergeReturnsTrue => \E i \in items' : HoldsMerged(i) /\ i.status = "active"]_vars

\* The same where the merged item is inserted, or the item that held the key
\* was active.
C40_MergedFactKeptIfActive ==
  [][(MergeReturnsTrue /\ (cons.pc = "insert" \/ cons.existing.status = "active")) =>
        \E i \in items' : HoldsMerged(i) /\ i.status = "active"]_vars
====
